---------------------------- MODULE Spec2Model ----------------------------
(***************************************************************************)
(* Model of the orchestration core of the financial-document chat          *)
(* assistant: the four-node LangGraph pipeline of ToolOrchestrator, the    *)
(* rule-based + model-fallback IntentClassifier, the language service      *)
(* (get_or_detect_user_language / detect_language_llm / select_language),  *)
(* the intent dispatcher (ToolsUtils + MCPServer), the ResponseProcessor   *)
(* and ChatService.process_chat, together with the MongoDB collections     *)
(* they read and write.                                                    *)
(*                                                                         *)
(* Texts that the code inspects character by character (the user query,    *)
(* matched against the regular-expression rule table) are sequences of     *)
(* one-character strings.  Texts that the code only passes along are       *)
(* records [kind, lang, about].  A Python dict is a TLA+ function whose     *)
(* DOMAIN is the set of keys that are present.                              *)
(***************************************************************************)
EXTENDS Integers, Sequences, FiniteSets, TLC

(***************************************************************************)
(* Bounds of the model.                                                    *)
(***************************************************************************)
MaxTurns == 1          \* process_chat calls explored per behaviour
MaxQueryWords == 3     \* words per query given to the classifier on its own
MaxSelects == 1        \* select_language calls explored per behaviour
MaxFiles == 2          \* upload_document calls that store a file
MaxLinks == 2          \* add_link calls that store a link
MaxHistoryOps == 5     \* append and clear calls on a chat history on its own
MaxProcs == 2          \* process_chat calls running at the same time

(***************************************************************************)
(* Generic helpers.                                                        *)
(***************************************************************************)
None == "None"

\* dict.get(key, default)
Get(d, k, default) == IF k \in DOMAIN d THEN d[k] ELSE default

Last(s) == s[Len(s)]

(***************************************************************************)
(* Characters and str.lower().                                             *)
(***************************************************************************)
UpperCase == <<"A","B","C","D","E","F","G","H","I","J","K","L","M",
               "N","O","P","Q","R","S","T","U","V","W","X","Y","Z">>
LowerCase == <<"a","b","c","d","e","f","g","h","i","j","k","l","m",
               "n","o","p","q","r","s","t","u","v","w","x","y","z">>

LowerChar(c) ==
  IF \E i \in 1..Len(UpperCase) : UpperCase[i] = c
  THEN LowerCase[CHOOSE i \in 1..Len(UpperCase) : UpperCase[i] = c]
  ELSE c

\* str.lower() on a sequence of characters
Lower(s) == [i \in 1..Len(s) |-> LowerChar(s[i])]

(***************************************************************************)
(* re.search for the patterns of the rule table.  Every pattern of the     *)
(* table is a list of literals joined by ".*", so a pattern is the         *)
(* sequence of its literals; "." matches any character but a newline.      *)
(***************************************************************************)
OccursAt(lit, s, i) ==
  /\ i >= 1
  /\ i + Len(lit) - 1 <= Len(s)
  /\ \A k \in 1..Len(lit) : s[i + k - 1] = lit[k]

NoNewline(s, from, to) == \A k \in from..to : s[k] # "\n"

\* the rest of the pattern, once the previous literal ended just before `from`
RECURSIVE MatchRest(_, _, _)
MatchRest(parts, s, from) ==
  IF parts = <<>> THEN TRUE
  ELSE \E i \in from..Len(s) :
         /\ OccursAt(Head(parts), s, i)
         /\ NoNewline(s, from, i - 1)
         /\ MatchRest(Tail(parts), s, i + Len(Head(parts)))

re_search(pattern, s) ==
  \E i \in 1..Len(s) :
     /\ OccursAt(Head(pattern), s, i)
     /\ MatchRest(Tail(pattern), s, i + Len(Head(pattern)))

(***************************************************************************)
(* IntentClassifier.intent_patterns, in declaration order (a Python dict   *)
(* iterates in insertion order).                                           *)
(***************************************************************************)
intent_patterns ==
  <<
    [intent |-> "statistical_analysis", patterns |-> <<
       << <<"a","n","a","l","y","z","e">>, <<"c","s","v">> >>,   \* analyze.*csv
       << <<"a","n","a","l","y","z","e">>, <<"e","x","c","e","l">> >>,   \* analyze.*excel
       << <<"d","a","t","a">>, <<"a","n","a","l","y","s","i","s">> >>,   \* data.*analysis
       << <<"s","t","a","t","i","s","t","i","c","a","l">>, <<"a","n","a","l","y","s","i","s">> >>,   \* statistical.*analysis
       << <<"a","v","e","r","a","g","e">>, <<"m","o","n","t","h","l","y">> >>,   \* average.*monthly
       << <<"c","o","r","r","e","l","a","t","i","o","n">> >>,   \* correlation
       << <<"s","t","a","n","d","a","r","d">>, <<"d","e","v","i","a","t","i","o","n">> >>,   \* standard.*deviation
       << <<"s","t","a","t","i","s","t","i","c","a","l">>, <<"s","u","m","m","a","r","y">> >>,   \* statistical.*summary
       << <<"d","e","s","c","r","i","p","t","i","v","e">>, <<"s","t","a","t","i","s","t","i","c","s">> >>,   \* descriptive.*statistics
       << <<"m","e","a","n">>, <<"m","e","d","i","a","n">> >>,   \* mean.*median
       << <<"a","n","a","l","y","z","e">>, <<"d","a","t","a">> >>,   \* analyze.*data
       << <<"c","s","v">>, <<"a","n","a","l","y","s","i","s">> >>   \* csv.*analysis
    >>],
    [intent |-> "financial_trend_analysis", patterns |-> <<
       << <<"t","r","e","n","d">>, <<"a","n","a","l","y","s","i","s">> >>,   \* trend.*analysis
       << <<"s","h","o","w">>, <<"t","r","e","n","d">> >>,   \* show.*trend
       << <<"t","r","e","n","d">>, <<"o","v","e","r">>, <<"t","i","m","e">> >>,   \* trend.*over.*time
       << <<"g","r","o","w","t","h">>, <<"p","a","t","t","e","r","n">> >>,   \* growth.*pattern
       << <<"t","r","e","n","d">>, <<"c","o","m","p","a","r","i","s","o","n">> >>,   \* trend.*comparison
       << <<"r","e","v","e","n","u","e">>, <<"t","r","e","n","d">> >>,   \* revenue.*trend
       << <<"p","r","o","f","i","t">>, <<"a","n","a","l","y","s","i","s">> >>,   \* profit.*analysis
       << <<"f","i","n","a","n","c","i","a","l">>, <<"t","r","e","n","d">> >>,   \* financial.*trend
       << <<"q","u","a","r","t","e","r","l","y">>, <<"t","r","e","n","d">> >>,   \* quarterly.*trend
       << <<"s","a","l","e","s">>, <<"t","r","e","n","d">> >>,   \* sales.*trend
       << <<"t","r","e","n","d">>, <<"i","n">>, <<"d","a","t","a">> >>   \* trend.*in.*data
    >>],
    [intent |-> "extract_table_data", patterns |-> <<
       << <<"e","x","t","r","a","c","t">>, <<"t","a","b","l","e">> >>,   \* extract.*table
       << <<"g","e","t">>, <<"d","a","t","a">>, <<"t","a","b","l","e">> >>,   \* get.*data.*table
       << <<"t","a","b","l","e">>, <<"i","n","f","o","r","m","a","t","i","o","n">> >>,   \* table.*information
       << <<"t","o","p">>, <<"p","r","o","d","u","c","t","s">> >>,   \* top.*products
       << <<"e","x","t","r","a","c","t">>, <<"f","r","o","m">>, <<"t","a","b","l","e">> >>,   \* extract.*from.*table
       << <<"t","a","b","l","e">>, <<"d","a","t","a">> >>,   \* table.*data
       << <<"g","e","t">>, <<"t","o","p">>, <<"r","e","c","o","r","d","s">> >>,   \* get.*top.*records
       << <<"f","i","l","t","e","r">>, <<"d","a","t","a">> >>,   \* filter.*data
       << <<"s","e","a","r","c","h">>, <<"i","n">>, <<"t","a","b","l","e">> >>   \* search.*in.*table
    >>],
    [intent |-> "document_summarizer", patterns |-> <<
       << <<"s","u","m","m","a","r","i","z","e">>, <<"d","o","c","u","m","e","n","t">> >>,   \* summarize.*document
       << <<"s","u","m","m","a","r","y">>, <<"p","d","f">> >>,   \* summary.*pdf
       << <<"k","e","y">>, <<"p","o","i","n","t","s">> >>,   \* key.*points
       << <<"s","u","m","m","a","r","i","z","e">>, <<"d","o","c","x">> >>,   \* summarize.*docx
       << <<"o","v","e","r","v","i","e","w">>, <<"d","o","c","u","m","e","n","t">> >>,   \* overview.*document
       << <<"d","o","c","u","m","e","n","t">>, <<"s","u","m","m","a","r","y">> >>,   \* document.*summary
       << <<"s","u","m","m","a","r","i","z","e">>, <<"f","i","l","e">> >>,   \* summarize.*file
       << <<"m","a","i","n">>, <<"p","o","i","n","t","s">> >>   \* main.*points
    >>],
    [intent |-> "web_research", patterns |-> <<
       << <<"l","a","t","e","s","t">>, <<"n","e","w","s">> >>,   \* latest.*news
       << <<"c","u","r","r","e","n","t">>, <<"m","a","r","k","e","t">> >>,   \* current.*market
       << <<"w","e","b">>, <<"r","e","s","e","a","r","c","h">> >>,   \* web.*research
       << <<"o","n","l","i","n","e">>, <<"r","e","p","o","r","t">> >>,   \* online.*report
       << <<"m","a","r","k","e","t">>, <<"t","r","e","n","d","s">>, <<"o","n","l","i","n","e">> >>,   \* market.*trends.*online
       << <<"s","e","a","r","c","h">>, <<"w","e","b">> >>,   \* search.*web
       << <<"w","e","b">>, <<"q","u","e","r","y">> >>,   \* web.*query
       << <<"u","r","l">>, <<"a","n","a","l","y","s","i","s">> >>,   \* url.*analysis
       << <<"w","e","b","s","i","t","e">>, <<"c","o","n","t","e","n","t">> >>   \* website.*content
    >>],
    [intent |-> "comparative_analysis", patterns |-> <<
       << <<"c","o","m","p","a","r","e">>, <<"d","o","c","u","m","e","n","t","s">> >>,   \* compare.*documents
       << <<"c","o","m","p","a","r","a","t","i","v","e">>, <<"a","n","a","l","y","s","i","s">> >>,   \* comparative.*analysis
       << <<"c","o","m","p","a","r","i","s","o","n">>, <<"b","e","t","w","e","e","n">> >>,   \* comparison.*between
       << <<"c","o","m","p","a","r","e">>, <<"f","i","l","e","s">> >>,   \* compare.*files
       << <<"d","i","f","f","e","r","e","n","c","e">>, <<"b","e","t","w","e","e","n">> >>,   \* difference.*between
       << <<"c","o","n","t","r","a","s","t">>, <<"d","o","c","u","m","e","n","t","s">> >>,   \* contrast.*documents
       << <<"c","o","m","p","a","r","e">>, <<"r","e","p","o","r","t","s">> >>,   \* compare.*reports
       << <<"s","i","d","e">>, <<"b","y">>, <<"s","i","d","e">> >>,   \* side.*by.*side
       << <<"v","s">> >>,   \* vs
       << <<"v","e","r","s","u","s">> >>   \* versus
    >>],
    [intent |-> "general_query", patterns |-> <<
       << <<"w","h","a","t">>, <<"i","s">> >>,   \* what.*is
       << <<"h","o","w">>, <<"t","o">> >>,   \* how.*to
       << <<"e","x","p","l","a","i","n">> >>,   \* explain
       << <<"t","e","l","l">>, <<"m","e">>, <<"a","b","o","u","t">> >>,   \* tell.*me.*about
       << <<"l","a","s","t">>, <<"q","u","e","s","t","i","o","n">> >>,   \* last.*question
       << <<"p","r","e","v","i","o","u","s">>, <<"c","o","n","v","e","r","s","a","t","i","o","n">> >>,   \* previous.*conversation
       << <<"h","e","l","p">>, <<"m","e">> >>,   \* help.*me
       << <<"c","a","n">>, <<"y","o","u">> >>,   \* can.*you
       << <<"h","e","l","l","o">> >>,   \* hello
       << <<"h","i">> >>,   \* hi
       << <<"t","h","a","n","k","s">> >>,   \* thanks
       << <<"t","h","a","n","k">>, <<"y","o","u">> >>   \* thank.*you
    >>]
  >>


\* valid_intents of classify_intent
valid_intents ==
  {"statistical_analysis", "financial_trend_analysis", "extract_table_data",
   "document_summarizer", "web_research", "comparative_analysis", "general_query"}

NoIntent == ""

\* The inner loop over one category's patterns.
AnyPatternMatches(patterns, query_lower) ==
  \E j \in 1..Len(patterns) : re_search(patterns[j], query_lower)

\* One pass of the loop over the categories, from the head of the table on:
\* it returns at the first category with a matching pattern.
RECURSIVE FirstMatchFrom(_, _)
FirstMatchFrom(table, query_lower) ==
  IF table = <<>> THEN NoIntent
  ELSE IF AnyPatternMatches(Head(table).patterns, query_lower)
       THEN Head(table).intent
       ELSE FirstMatchFrom(Tail(table), query_lower)

RuleBasedIntent_lastmatch(table, query_lower) ==
  LET hits == {i \in 1..Len(table) : AnyPatternMatches(table[i].patterns, query_lower)} IN
  IF hits = {} THEN NoIntent
  ELSE table[CHOOSE i \in hits : \A j \in hits : j <= i].intent

\* The loop over self.intent_patterns.items(), in declaration order; NoIntent
\* when it falls through.
RuleBasedIntent(table, query_lower) == FirstMatchFrom(table, query_lower)

(***************************************************************************)
(* The model service, as the classifier sees it: the call either raises or *)
(* returns a text.  response.content.strip().lower() is tabulated for the  *)
(* answers the model explores.                                             *)
(***************************************************************************)
LLMIntentAnswers ==
  {" Extract_Table_Data\n", "The intent is web_research", ""}

StripLower(answer) ==
  CASE answer = " Extract_Table_Data\n" -> "extract_table_data"
    [] answer = "The intent is web_research" -> "the intent is web_research"
    [] OTHER -> answer

LLMIntentOutcomes ==
  {[kind |-> "raise", content |-> ""]} \cup
  {[kind |-> "ok", content |-> a] : a \in LLMIntentAnswers}

ValidateIntent_unchecked(intent) == intent

\* The validation of the model's answer against valid_intents.
ValidateIntent(intent) == IF intent \in valid_intents THEN intent ELSE "general_query"

\* IntentClassifier.classify_intent: the intent returned and whether the model
\* was called.  The whole body is inside try/except: an exception of the model
\* call gives general_query.
classify_intent_after_rules(rule, llm) ==
  IF rule # NoIntent
  THEN [intent |-> rule, llm_called |-> FALSE]
  ELSE IF llm.kind = "raise"
       THEN [intent |-> "general_query", llm_called |-> TRUE]
       ELSE [intent |-> ValidateIntent(StripLower(llm.content)), llm_called |-> TRUE]

\* IntentClassifier.classify_intent(query)
classify_intent(query, llm) ==
  classify_intent_after_rules(RuleBasedIntent(intent_patterns, Lower(query)), llm)

(***************************************************************************)
(* Queries.                                                                *)
(***************************************************************************)
wAnalyze == <<"A","n","a","l","y","z","e">>
wThis == <<"t","h","i","s">>
wCSV == <<"C","S","V">>
wData == <<"D","a","t","a">>
wTable == <<"t","a","b","l","e">>
wHola == <<"h","o","l","a">>
Vocabulary == {wAnalyze, wThis, wCSV, wData, wTable, wHola}
qAnalyzeCsv == <<"A","n","a","l","y","z","e"," ","t","h","i","s"," ","C","S","V">>   \* Analyze this CSV
qShowTrend == <<"s","h","o","w"," ","t","r","e","n","d">>   \* show trend
qTopProducts == <<"t","o","p"," ","p","r","o","d","u","c","t","s"," ","v","s"," ","t","a","b","l","e"," ","d","a","t","a">>   \* top products vs table data
qSummarize == <<"s","u","m","m","a","r","i","z","e"," ","t","h","i","s"," ","d","o","c","u","m","e","n","t">>   \* summarize this document
qLatestNews == <<"l","a","t","e","s","t"," ","n","e","w","s">>   \* latest news
qCompare == <<"c","o","m","p","a","r","e"," ","d","o","c","u","m","e","n","t","s">>   \* compare documents
qHola == <<"h","o","l","a">>   \* hola
ExampleQueries == {qAnalyzeCsv, qShowTrend, qTopProducts, qSummarize, qLatestNews, qCompare, qHola}

(***************************************************************************)
(* Texts that are passed along: what the text is (kind), the language it   *)
(* is written in, what it is about; a user query also carries its          *)
(* characters.                                                             *)
(***************************************************************************)
MkText(kind, lang, about) == [kind |-> kind, lang |-> lang, about |-> about, chars |-> <<>>]
QueryText(q) == [kind |-> "query", lang |-> None, about |-> None, chars |-> q]

\* "I apologize, but I encountered an error while processing your request."
ApologyError == MkText("apology_error", "English", None)
\* "I apologize, but I couldn't process your request properly."
ApologyNoResponse == MkText("apology_no_response", "English", None)
\* "I apologize, but I'm currently unable to process your request. ..."
ApologyUnable == MkText("apology_unable", "English", None)

(***************************************************************************)
(* settings.SUPPORTED_LANGUAGES and the language service.                  *)
(***************************************************************************)
SUPPORTED_LANGUAGES ==
  <<"English", "Spanish", "French", "German", "Italian", "Portuguese", "Dutch",
    "Russian", "Chinese", "Japanese", "Korean", "Arabic", "Hindi", "Gujarati", "Marathi">>

SupportedSet == {SUPPORTED_LANGUAGES[i] : i \in 1..Len(SUPPORTED_LANGUAGES)}

UnsupportedMarker == "language is not support"
\* f"Error: {str(e)}"
DetectionErrorText == "Error: model call failed"

\* answers of the model to the detection prompt
LLMLanguageAnswers == {" hindi\n", "Turkish", "language is not support"}

LLMLanguageOutcomes ==
  {[kind |-> "init_raise", content |-> ""], [kind |-> "raise", content |-> ""]} \cup
  {[kind |-> "ok", content |-> a] : a \in LLMLanguageAnswers}

\* str.strip() and str.lower() on the language names in play
StripText(s) == IF s = " hindi\n" THEN "hindi" ELSE s

LowerText(s) ==
  CASE s = "English" -> "english"   [] s = "Spanish" -> "spanish"
    [] s = "French" -> "french"     [] s = "German" -> "german"
    [] s = "Italian" -> "italian"   [] s = "Portuguese" -> "portuguese"
    [] s = "Dutch" -> "dutch"       [] s = "Russian" -> "russian"
    [] s = "Chinese" -> "chinese"   [] s = "Japanese" -> "japanese"
    [] s = "Korean" -> "korean"     [] s = "Arabic" -> "arabic"
    [] s = "Hindi" -> "hindi"       [] s = "Gujarati" -> "gujarati"
    [] s = "Marathi" -> "marathi"   [] s = "Turkish" -> "turkish"
    [] OTHER -> s

\* detect_language_llm: the model is constructed outside the try block, so a
\* failure there propagates; a failure of llm.invoke is turned into a text.
detect_language_llm(llm) ==
  IF llm.kind = "init_raise" THEN [raised |-> TRUE, value |-> None]
  ELSE IF llm.kind = "raise" THEN [raised |-> FALSE, value |-> DetectionErrorText]
  ELSE LET result == StripText(llm.content)
           hits == {i \in 1..Len(SUPPORTED_LANGUAGES) :
                      LowerText(result) = LowerText(SUPPORTED_LANGUAGES[i])}
       IN IF hits # {}
          THEN [raised |-> FALSE,
                value |-> SUPPORTED_LANGUAGES[CHOOSE i \in hits : \A j \in hits : i <= j]]
          ELSE IF result # UnsupportedMarker
               THEN [raised |-> FALSE, value |-> UnsupportedMarker]
               ELSE [raised |-> FALSE, value |-> result]

(***************************************************************************)
(* A MongoDB collection keyed by (user, session): for every key the        *)
(* documents with that key, in insertion order.  A document is the         *)
(* function from its other fields to their values.                         *)
(***************************************************************************)
Sessions == {"s1"}
Users == {"u1"}
Keys == Users \X Sessions

\* find_one: the first document with the key, if any
Found(coll, key) == coll[key] # <<>>
FindOne(coll, key) == Head(coll[key])

\* {"$set": fields} on a document
SetFields(doc, fields) ==
  [k \in DOMAIN doc \cup DOMAIN fields |-> IF k \in DOMAIN fields THEN fields[k] ELSE doc[k]]

\* update_one(filter, {"$set": fields}, upsert): the first matching document is
\* updated; without a match the document is inserted when upsert is set.
UpdateOne(coll, key, fields, upsert) ==
  IF Found(coll, key)
  THEN [coll EXCEPT ![key] = <<SetFields(Head(@), fields)>> \o Tail(@)]
  ELSE IF upsert THEN [coll EXCEPT ![key] = <<fields>>] ELSE coll

InsertOne(coll, key, doc) == [coll EXCEPT ![key] = Append(@, doc)]

\* Python truthiness of dict.get(field)
Truthy(v) == v # None /\ v # ""

\* store_user_language_preference: upsert of selected_language; a failure of the
\* store is logged and swallowed.
store_user_language_preference(pref, key, language, dbWrite) ==
  IF dbWrite = "fail" THEN pref
  ELSE UpdateOne(pref, key, [selected_language |-> language], TRUE)

\* get_or_detect_user_language: the language returned, whether llm.invoke was
\* reached, and the LanguagePreference collection afterwards.
get_or_detect_user_language(pref, key, llm, dbRead, dbWrite) ==
  IF dbRead = "fail"
  THEN [language |-> "English", llm_invoked |-> FALSE, cached |-> FALSE, pref |-> pref]
  ELSE IF Found(pref, key) /\ Truthy(Get(FindOne(pref, key), "language", None))
  THEN [language |-> FindOne(pref, key)["language"], llm_invoked |-> FALSE,
        cached |-> TRUE, pref |-> pref]
  ELSE LET d == detect_language_llm(llm) IN
       IF d.raised
       THEN [language |-> "English", llm_invoked |-> FALSE, cached |-> FALSE, pref |-> pref]
       ELSE [language |-> d.value, llm_invoked |-> TRUE, cached |-> FALSE,
             pref |-> store_user_language_preference(pref, key, d.value, dbWrite)]

select_language_keepfirst(pref, key, language, db) ==
  IF language \notin SupportedSet THEN [status |-> 500, pref |-> pref]
  ELSE IF db = "fail" THEN [status |-> 500, pref |-> pref]
  ELSE IF ~Found(pref, key)
       THEN [status |-> 200, pref |-> InsertOne(pref, key, [selected_language |-> language])]
       ELSE [status |-> 200, pref |-> pref]

\* Utility.select_language: the HTTP status and the collection afterwards.  The
\* 400 raised for an unsupported language is raised inside the try block, whose
\* handler turns every exception into a 500.
select_language(pref, key, language, db) ==
  IF language \notin SupportedSet THEN [status |-> 500, pref |-> pref]
  ELSE IF db = "fail" THEN [status |-> 500, pref |-> pref]
  ELSE IF ~Found(pref, key)
       THEN [status |-> 200, pref |-> InsertOne(pref, key, [selected_language |-> language])]
       ELSE [status |-> 200,
             pref |-> UpdateOne(pref, key, [selected_language |-> language], FALSE)]

(***************************************************************************)
(* Uploaded documents: GridFS (fs.files) and the SessionDocuments          *)
(* collection.  A file id is the position of the file in fs.files.         *)
(***************************************************************************)
SUPPORTED_EXTENSIONS == {"csv", "xlsx", "xls", "pdf", "docx"}

Filenames ==
  {[stem |-> "sales", ext |-> "csv"], [stem |-> "report", ext |-> "PDF"],
   [stem |-> "run", ext |-> "exe"]}

\* file.filename.rsplit('.', 1)[-1].lower()
LowerExt(ext) == IF ext = "PDF" THEN "pdf" ELSE ext

\* type_mapping.get(file_extension, file_extension)
NormalizeType(ext) == IF ext \in {"xlsx", "xls"} THEN "excel" ELSE ext

\* f"{file_type}_ids"
TypeKey(file_type) ==
  CASE file_type = "csv" -> "csv_ids"   [] file_type = "excel" -> "excel_ids"
    [] file_type = "pdf" -> "pdf_ids"   [] file_type = "docx" -> "docx_ids"
    [] file_type = "xlsx" -> "xlsx_ids" [] file_type = "xls" -> "xls_ids"
    [] OTHER -> "link_ids"

\* {"$push": {field: value}} with upsert
PushOne(coll, key, field, value) ==
  IF Found(coll, key)
  THEN [coll EXCEPT ![key] =
          <<SetFields(Head(@), (field :> Append(Get(Head(@), field, <<>>), value)))>> \o Tail(@)]
  ELSE [coll EXCEPT ![key] = <<(field :> <<value>>)>>]

\* main.upload_document + DocumentService.upload_document: the HTTP status, the
\* files and the session documents afterwards.
upload_document(files, docs, key, filename) ==
  LET ext == LowerExt(filename.ext) IN
  IF ext \notin SUPPORTED_EXTENSIONS THEN [status |-> 400, files |-> files, docs |-> docs]
  ELSE IF \E i \in 1..Len(files) : files[i].filename = filename /\ files[i].key = key
  THEN [status |-> 409, files |-> files, docs |-> docs]
  ELSE [status |-> 200,
        files |-> Append(files, [filename |-> filename, key |-> key]),
        docs |-> PushOne(docs, key, TypeKey(NormalizeType(ext)), Len(files) + 1)]

\* process_chat: documents_dict built from DocumentService.get_session_documents
\* (a failed read gives None, and so does a session without documents; the
\* SessionDocuments model defaults every missing list to []).
EmptyDict == [k \in {} |-> None]

documents_dict(docs, key, dbRead) ==
  IF dbRead = "fail" \/ ~Found(docs, key) THEN EmptyDict
  ELSE [k \in {"csv_ids", "excel_ids", "pdf_ids", "docx_ids", "link_ids"} |->
          Get(FindOne(docs, key), k, <<>>)]

(***************************************************************************)
(* The analysis tools are black boxes: a call returns a success envelope,  *)
(* returns a failure envelope, or raises.                                  *)
(***************************************************************************)
ToolOutcomes == {"ok", "fail", "raise"}

MCPTools ==
  {"financial_trend_analysis", "document_summarizer", "extract_table_data",
   "comparative_analysis", "web_research", "statistical_analysis", "general_query"}

\* the key under which each tool returns its payload
PayloadKey(tool_name) ==
  CASE tool_name = "general_query" -> "response"
    [] tool_name = "extract_table_data" -> "results"
    [] tool_name = "document_summarizer" -> "summary"
    [] tool_name = "web_research" -> "answer"
    [] OTHER -> "data"

ToolEnvelope(tool_name, outcome) ==
  IF outcome = "ok"
  THEN ("success" :> TRUE) @@ (PayloadKey(tool_name) :> tool_name)
  ELSE [success |-> FALSE, error |-> "tool reported an error"]

\* MCPServer.execute_tool
mcp_execute_tool(tool_name, outcome) ==
  IF tool_name \notin MCPTools THEN [error |-> "Tool not found"]
  ELSE IF outcome = "raise" THEN [error |-> "Tool execution failed"]
  ELSE ToolEnvelope(tool_name, outcome)

\* ToolOrchestratorUtils.get_relevant_files: the kind of the first relevant
\* file that loads, None when there is none.  loadable is the set of file ids
\* that GridFS can deliver.
RelevantTypes_anyfile(intent) ==
  IF intent \in {"extract_table_data", "statistical_analysis", "financial_trend_analysis"}
  THEN <<"csv", "excel", "xlsx", "xls", "pdf", "docx">>
  ELSE IF intent = "document_summarizer" THEN <<"pdf", "docx">> ELSE <<>>

RelevantTypes(intent) ==
  IF intent \in {"extract_table_data", "statistical_analysis", "financial_trend_analysis"}
  THEN <<"csv", "excel", "xlsx", "xls">>
  ELSE IF intent = "document_summarizer" THEN <<"pdf", "docx">> ELSE <<>>

RECURSIVE FirstLoadable(_, _, _)
FirstLoadable(types, documents, loadable) ==
  IF types = <<>> THEN None
  ELSE LET ids == Get(documents, TypeKey(Head(types)), <<>>) IN
       IF ids # <<>> /\ ids[1] \in loadable THEN Head(types)
       ELSE FirstLoadable(Tail(types), documents, loadable)

get_relevant_files(documents, intent, loadable) ==
  FirstLoadable(RelevantTypes(intent), documents, loadable)

get_multiple_documents_pdfonly(documents, loadable) ==
  LET pick(k) == SelectSeq(Get(documents, k, <<>>), LAMBDA id : id \in loadable)
  IN pick("pdf_ids")

\* ToolOrchestratorUtils.get_multiple_documents: the pdf and docx files that load
get_multiple_documents(documents, loadable) ==
  LET pick(k) == SelectSeq(Get(documents, k, <<>>), LAMBDA id : id \in loadable)
  IN pick("pdf_ids") \o pick("docx_ids")

\* ToolOrchestratorUtils.extract_urls_from_query: the start of the first match
\* of http[s]?://(url character)+ in the query, 0 when there is none.
\* IsUrlChar lists the characters in play that the character class rejects.
IsUrlChar(c) == c \notin {" ", "\n", "\t", "#", "{", "|", "}", "~"}

UrlAt(q, i) ==
  \/ /\ OccursAt(<<"h","t","t","p",":","/","/">>, q, i)
     /\ i + 7 <= Len(q) /\ IsUrlChar(q[i + 7])
  \/ /\ OccursAt(<<"h","t","t","p","s",":","/","/">>, q, i)
     /\ i + 8 <= Len(q) /\ IsUrlChar(q[i + 8])

extract_urls_from_query(q) ==
  IF \E i \in 1..Len(q) : UrlAt(q, i)
  THEN CHOOSE i \in 1..Len(q) : UrlAt(q, i) /\ \A j \in 1..(i - 1) : ~UrlAt(q, j)
  ELSE 0

(***************************************************************************)
(* ToolsUtils: the dispatcher.                                             *)
(***************************************************************************)
\* _execute_data_analysis_tool
execute_data_analysis_tool(tool_name, documents, loadable, outcome) ==
  IF get_relevant_files(documents, tool_name, loadable) # None
  THEN mcp_execute_tool(tool_name, outcome)
  ELSE [success |-> FALSE, error |-> "No relevant files found"]

\* _execute_document_summarizer
execute_document_summarizer(tool_name, documents, loadable, outcome) ==
  IF get_relevant_files(documents, "document_summarizer", loadable) # None
  THEN mcp_execute_tool(tool_name, outcome)
  ELSE [success |-> FALSE, error |-> "No PDF or DOCX files found for summarization"]

\* _execute_web_research: user_links is what get_user_links returned
execute_web_research(tool_name, query, user_links, outcome) ==
  IF extract_urls_from_query(query) # 0
  THEN mcp_execute_tool(tool_name, outcome)
  ELSE IF user_links # <<>>
       THEN mcp_execute_tool(tool_name, outcome)
       ELSE [success |-> FALSE, error |-> "No URL provided for web research"]

\* _execute_comparative_analysis
execute_comparative_analysis(tool_name, documents, loadable, outcome) ==
  IF Len(get_multiple_documents(documents, loadable)) >= 2
  THEN mcp_execute_tool(tool_name, outcome)
  ELSE [success |-> FALSE, error |-> "Need at least 2 documents for comparative analysis"]

\* _execute_general_query
execute_general_query(tool_name, outcome) == mcp_execute_tool(tool_name, outcome)

\* execute_tool_by_intent: INTENT_TO_TOOL_MAPPING maps each of the seven intents
\* to itself and .get(intent, intent) leaves any other intent as it is.
execute_tool_by_intent(intent, query, documents, user_links, loadable, outcome) ==
  LET tool_name == intent IN
  IF tool_name \in {"statistical_analysis", "financial_trend_analysis", "extract_table_data"}
  THEN execute_data_analysis_tool(tool_name, documents, loadable, outcome)
  ELSE IF tool_name = "document_summarizer"
  THEN execute_document_summarizer(tool_name, documents, loadable, outcome)
  ELSE IF tool_name = "web_research"
  THEN execute_web_research(tool_name, query, user_links, outcome)
  ELSE IF tool_name = "comparative_analysis"
  THEN execute_comparative_analysis(tool_name, documents, loadable, outcome)
  ELSE execute_general_query(tool_name, outcome)

(***************************************************************************)
(* Links, and what the dispatcher hands to MCPServer.execute_tool.         *)
(***************************************************************************)
\* LinkService.add_link behind main.add_link: a link already stored for the
\* key, and any database error, are answered with 500; otherwise the link is
\* inserted after the ones already there.
add_link(coll, key, url, db) ==
  IF db = "fail" THEN [status |-> 500, links |-> coll]
  ELSE IF \E i \in 1..Len(coll[key]) : coll[key][i].url = url
  THEN [status |-> 500, links |-> coll]
  ELSE [status |-> 200,
        links |-> [coll EXCEPT ![key] = Append(@, [url |-> url, title |-> url])]]

\* ToolOrchestratorUtils.get_user_links: find() without a sort gives the
\* documents of the key in the order of their insertion, to_list keeps the
\* first 10 of them (to_list(length=10)); a database error gives [].
get_user_links(coll, key, dbRead) ==
  IF dbRead = "fail" THEN <<>>
  ELSE SubSeq(coll[key], 1, IF Len(coll[key]) < 10 THEN Len(coll[key]) ELSE 10)

\* urls[0] of extract_urls_from_query: the match is greedy, it runs from its
\* start over http:// or https:// and every url character that follows.
first_url(q) ==
  LET i == extract_urls_from_query(q)
      b == IF OccursAt(<<"h","t","t","p","s",":","/","/">>, q, i) THEN i + 8 ELSE i + 7
      e == CHOOSE j \in b..Len(q) :
             /\ \A k \in b..j : IsUrlChar(q[k])
             /\ j = Len(q) \/ ~IsUrlChar(q[j + 1])
  IN SubSeq(q, i, e)

NoCall == [tool |-> None]

\* the mcp_server.execute_tool call that execute_tool_by_intent makes through
\* its _execute_* helper, NoCall when the helper returns without one: the data
\* analysis tools and the summarizer get the first relevant file that loads,
\* web_research gets urls[0] of the query or else links[0]["url"], and
\* comparative_analysis gets every document of get_multiple_documents.
tool_call(intent, query, documents, user_links, loadable) ==
  LET tool_name == intent
      file_type == get_relevant_files(documents, tool_name, loadable)
      docs == get_multiple_documents(documents, loadable)
  IN
  IF tool_name \in {"statistical_analysis", "financial_trend_analysis", "extract_table_data",
                    "document_summarizer"}
  THEN IF file_type = None THEN NoCall
       ELSE [tool |-> tool_name, file_type |-> file_type,
             file_data |-> Get(documents, TypeKey(file_type), <<>>)[1]]
  ELSE IF tool_name = "web_research"
  THEN IF extract_urls_from_query(query) # 0
       THEN [tool |-> tool_name, url |-> first_url(query)]
       ELSE IF user_links # <<>>
            THEN [tool |-> tool_name, url |-> user_links[1].url]
            ELSE NoCall
  ELSE IF tool_name = "comparative_analysis"
  THEN IF Len(docs) >= 2 THEN [tool |-> tool_name, documents |-> docs] ELSE NoCall
  ELSE [tool |-> tool_name]

(***************************************************************************)
(* ResponseProcessor.  llm is the outcome of the structuring call and      *)
(* llm2 the outcome of the separate translation call ("ok" or "raise").    *)
(***************************************************************************)
LLMCallOutcomes == {"ok", "raise"}

\* _translate_simple_text: on failure the text comes back unchanged
translate_simple_text(text, target_language, llm2) ==
  IF llm2 = "ok" THEN [text EXCEPT !.lang = target_language] ELSE text

\* what a text built from an envelope is about
Payload(tool_result) ==
  LET keys == DOMAIN tool_result \ {"success"} IN
  IF keys = {} THEN None ELSE tool_result[CHOOSE k \in keys : TRUE]

structure_and_translate_response_untranslated(tool_result, target_language, llm, llm2) ==
  IF llm = "ok" THEN MkText("structured", target_language, Payload(tool_result))
  ELSE IF Get(tool_result, "success", FALSE)
       THEN MkText("found", "English", Get(tool_result, "data", "whole envelope"))
       ELSE MkText("issue", "English", Get(tool_result, "error", "Unknown error occurred"))

\* _structure_and_translate_response
structure_and_translate_response(tool_result, target_language, llm, llm2) ==
  IF llm = "ok" THEN MkText("structured", target_language, Payload(tool_result))
  ELSE LET fallback ==
             IF Get(tool_result, "success", FALSE)
             THEN MkText("found", "English", Get(tool_result, "data", "whole envelope"))
             ELSE MkText("issue", "English", Get(tool_result, "error", "Unknown error occurred"))
       IN IF target_language # "English"
          THEN translate_simple_text(fallback, target_language, llm2)
          ELSE fallback

\* process_and_format_response(tool_result, intent, user_query, user_query_language)
process_and_format_response(tool_result, user_query_language, llm, llm2) ==
  structure_and_translate_response(tool_result, user_query_language, llm, llm2)

\* handle_tool_failure(tool_result, user_query, intent, user_query_language)
handle_tool_failure(tool_result, user_query_language, llm, llm2) ==
  IF llm = "ok"
  THEN MkText("failure_explained", user_query_language,
              Get(tool_result, "error", "Unknown error occurred"))
  ELSE IF user_query_language # "English"
       THEN translate_simple_text(ApologyUnable, user_query_language, llm2)
       ELSE ApologyUnable

\* the parameter names of the two methods, and the keywords of the two calls in
\* _generate_response_node; a keyword that is no parameter is a TypeError
process_and_format_response_params ==
  {"tool_result", "intent", "user_query", "user_query_language"}
handle_tool_failure_params ==
  {"tool_result", "user_query", "intent", "user_query_language"}
generate_call_keywords ==
  {"tool_result", "intent", "user_query", "response_language"}

Binds(keywords, params) == keywords \subseteq params

(***************************************************************************)
(* OrchestratorState and the four nodes.  A node returns the update that   *)
(* LangGraph merges into the state: messages are appended (add_messages),  *)
(* every other key is overwritten.                                         *)
(***************************************************************************)
Human(q) == [type |-> "human", content |-> QueryText(q)]
AI(text) == [type |-> "ai", content |-> text]

\* process_query: initial_state (user_query_language is not given a value)
initial_state(key, query, message_id, documents) ==
  [messages |-> <<Human(query)>>, session_id |-> key[2], user_id |-> key[1],
   message_id |-> message_id, intent |-> "", tool_result |-> EmptyDict,
   documents |-> documents]

Merge_overwrite(state, update) ==
  [k \in DOMAIN state \cup DOMAIN update |->
     IF k \notin DOMAIN update THEN state[k] ELSE update[k]]

Merge(state, update) ==
  [k \in DOMAIN state \cup DOMAIN update |->
     IF k \notin DOMAIN update THEN state[k]
     ELSE IF k = "messages" THEN state[k] \o update[k]
     ELSE update[k]]

LastQuery(state) == Last(state["messages"]).content.chars

\* _detect_user_language
detect_user_language(state, pref, llm, dbRead, dbWrite) ==
  LET r == get_or_detect_user_language(pref, <<state["user_id"], state["session_id"]>>,
                                       llm, dbRead, dbWrite)
  IN [update |-> [user_query_language |-> r.language], pref |-> r.pref,
      llm_invoked |-> r.llm_invoked, cached |-> r.cached]

\* _classify_intent_node: r is what classify_intent returns for the last message
classify_intent_node(r) == [update |-> [intent |-> r.intent], llm_called |-> r.llm_called]

\* _execute_tool_node
execute_tool_node(state, user_links, loadable, outcome) ==
  [update |-> [tool_result |->
      execute_tool_by_intent(state["intent"], LastQuery(state), state["documents"],
                             user_links, loadable, outcome)]]

\* _generate_response_node: the language it asks for, whether the call to the
\* ResponseProcessor binds, and the message it appends.
generate_response_node(state, llm, llm2) ==
  LET tool_result == state["tool_result"]
      response_language == Get(state, "responce_language", "English")
      success == Get(tool_result, "success", FALSE)
      params == IF success THEN process_and_format_response_params
                ELSE handle_tool_failure_params
      binds == Binds(generate_call_keywords, params)
      content ==
        IF binds
        THEN IF success
             THEN process_and_format_response(tool_result, response_language, llm, llm2)
             ELSE handle_tool_failure(tool_result, response_language, llm, llm2)
        ELSE IF response_language # "English"
             THEN translate_simple_text(ApologyError, response_language, llm2)
             ELSE ApologyError
  IN [update |-> [messages |-> <<AI(content)>>],
      call |-> [method |-> IF success THEN "process_and_format_response"
                           ELSE "handle_tool_failure",
                response_language |-> response_language,
                bound |-> binds,
                llm |-> llm]]

\* process_query: the text returned once the graph has run
process_query_return(messages) ==
  LET ai_messages == SelectSeq(messages, LAMBDA m : m.type = "ai") IN
  IF ai_messages # <<>> THEN Last(ai_messages).content ELSE ApologyNoResponse

(***************************************************************************)
(* The graph built by _build_graph, and process_chat around it.            *)
(***************************************************************************)
Nodes == {"detect_user_language", "classify_intent", "execute_tool", "generate_response"}

Edges_branching ==
  {<<"START", "detect_user_language">>,
   <<"detect_user_language", "classify_intent">>,
   <<"detect_user_language", "execute_tool">>,
   <<"classify_intent", "execute_tool">>,
   <<"execute_tool", "generate_response">>,
   <<"generate_response", "END">>}

\* builder.add_edge(...)
Edges ==
  {<<"START", "detect_user_language">>,
   <<"detect_user_language", "classify_intent">>,
   <<"classify_intent", "execute_tool">>,
   <<"execute_tool", "generate_response">>,
   <<"generate_response", "END">>}

Successors(n) == {e[2] : e \in {d \in Edges : d[1] = n}} \ {"END"}

process_chat_on_error_reraising == [kind |-> "raised", text |-> MkText("none", None, None)]

\* process_chat's except branch: the exception is logged and the apology returned
process_chat_on_error == [kind |-> "returned", text |-> ApologyError]

NoOutcome == [kind |-> "none", text |-> MkText("none", None, None)]
NoReply == [op |-> "none", status |-> 0]
NoReq == [key |-> <<"", "">>, message_id |-> 0]

(***************************************************************************)
(* re.search and re.finditer for the patterns of                           *)
(* parse_table_extraction_params.  A pattern is a sequence of elements:    *)
(* [lit |-> alternatives] is a group of literal alternatives, tried in     *)
(* the order written; [cls, min, cap, lazy] is a run of at least min       *)
(* characters of the classes cls, the longest that lets the rest match     *)
(* (the shortest when lazy), captured as a group when cap.  The classes    *)
(* are "d", "w", "s", "nl", "op", ",", "." and "other".                    *)
(***************************************************************************)

\* the characters of \w that are not digits
WordCharacters ==
  {"_"} \cup {LowerCase[k] : k \in 1..Len(LowerCase)} \cup {UpperCase[k] : k \in 1..Len(UpperCase)}

\* the class of a character: the rest of \s, newline, \d, the rest of \w, [><=!]
CharClass(c) ==
  IF c \in {" ", "\t"} THEN "s"
  ELSE IF c = "\n" THEN "nl"
  ELSE IF c \in {"0","1","2","3","4","5","6","7","8","9"} THEN "d"
  ELSE IF c \in WordCharacters THEN "w"
  ELSE IF c \in {">", "<", "=", "!"} THEN "op"
  ELSE IF c \in {",", "."} THEN c
  ELSE "other"

\* the match of pattern that starts at position i of s: whether there is one,
\* the position after it, and its groups
RECURSIVE re_match_at(_, _, _)
re_match_at(pattern, s, i) ==
  IF pattern = <<>> THEN [ok |-> TRUE, end |-> i, groups |-> <<>>]
  ELSE
    LET e == Head(pattern)
        rest == Tail(pattern)
        NoMatch == [ok |-> FALSE, end |-> i, groups |-> <<>>]
        Least(S) == CHOOSE x \in S : \A y \in S : x <= y
        Greatest(S) == CHOOSE x \in S : \A y \in S : x >= y
        \* the match that gives n characters to e, with the group of e in front
        WithGroup(n, r) ==
          [ok |-> TRUE, end |-> r.end,
           groups |-> IF e.cap THEN <<SubSeq(s, i, i + n - 1)>> \o r.groups ELSE r.groups]
        Give(n) == WithGroup(n, re_match_at(rest, s, i + n))
    IN IF "lit" \in DOMAIN e
       THEN LET \* the alternatives after which the rest matches
                good == {k \in 1..Len(e.lit) :
                           /\ OccursAt(e.lit[k], s, i)
                           /\ re_match_at(rest, s, i + Len(e.lit[k])).ok}
                First(S) == IF S = {} THEN NoMatch
                            ELSE re_match_at(rest, s, i + Len(e.lit[Least(S)]))
            IN First(good)
       ELSE LET run == CHOOSE n \in 0..(Len(s) - i + 1) :
                         /\ (i + n <= Len(s) => CharClass(s[i + n]) \notin e.cls)
                         /\ \A k \in 0..(n - 1) : CharClass(s[i + k]) \in e.cls
                \* the lengths after which the rest matches
                good == {n \in e.min..run : re_match_at(rest, s, i + n).ok}
                Preferred(S) == IF S = {} THEN NoMatch
                                ELSE Give(IF e.lazy THEN Least(S) ELSE Greatest(S))
            IN Preferred(good)

\* re.search from a position on: the leftmost match
re_search_from(pattern, s, from) ==
  LET starts == {i \in from..Len(s) : re_match_at(pattern, s, i).ok}
      Leftmost(S) ==
        IF S = {} THEN [ok |-> FALSE, end |-> from, groups |-> <<>>]
        ELSE re_match_at(pattern, s, CHOOSE x \in S : \A y \in S : x <= y)
  IN Leftmost(starts)

\* re.finditer: the groups of the successive matches that do not overlap
RECURSIVE re_finditer(_, _, _)
re_finditer(pattern, s, from) ==
  LET m == re_search_from(pattern, s, from)
  IN IF m.ok THEN <<m.groups>> \o re_finditer(pattern, s, m.end) ELSE <<>>

(***************************************************************************)
(* ToolOrchestratorUtils.parse_table_extraction_params.  A column name is  *)
(* a sequence of characters and the empty sequence stands for Python's     *)
(* None (a captured name is never empty, and the code tests the column by  *)
(* truth).                                                                 *)
(***************************************************************************)
default_params_five ==
  [extraction_type |-> "all", n_results |-> 5, sort_column |-> <<>>, ascending |-> TRUE]

default_params ==
  [extraction_type |-> "all", n_results |-> 10, sort_column |-> <<>>, ascending |-> TRUE]

number_patterns ==
  <<<<[lit |-> <<<<"t","o","p">>, <<"f","i","r","s","t">>, <<"s","h","o","w">>>>], [cls |-> {"s", "nl"}, min |-> 1, cap |-> FALSE, lazy |-> FALSE], [cls |-> {"d"}, min |-> 1, cap |-> TRUE, lazy |-> FALSE]>>,
    <<[cls |-> {"d"}, min |-> 1, cap |-> TRUE, lazy |-> FALSE], [cls |-> {"s", "nl"}, min |-> 1, cap |-> FALSE, lazy |-> FALSE], [lit |-> <<<<"r","o","w","s">>, <<"r","o","w">>, <<"r","e","c","o","r","d","s">>, <<"r","e","c","o","r","d">>, <<"e","n","t","r","i","e","s">>, <<"e","n","t","r","i","e">>>>]>>,
    <<[lit |-> <<<<"l","i","m","i","t">>>>], [cls |-> {"s", "nl"}, min |-> 1, cap |-> FALSE, lazy |-> FALSE], [cls |-> {"d"}, min |-> 1, cap |-> TRUE, lazy |-> FALSE]>>,
    <<[cls |-> {"d"}, min |-> 1, cap |-> TRUE, lazy |-> FALSE], [cls |-> {"s", "nl"}, min |-> 1, cap |-> FALSE, lazy |-> FALSE], [lit |-> <<<<"r","e","s","u","l","t","s">>, <<"r","e","s","u","l","t">>>>]>>>>

\* sort_patterns without its pattern for "top ... by X"
sort_patterns_without_top_by ==
  <<[pattern |-> <<[lit |-> <<<<"s","o","r","t">>, <<"o","r","d","e","r">>>>], [cls |-> {"s", "nl"}, min |-> 1, cap |-> FALSE, lazy |-> FALSE], [lit |-> <<<<"b","y">>>>], [cls |-> {"s", "nl"}, min |-> 1, cap |-> FALSE, lazy |-> FALSE], [cls |-> {"d", "w"}, min |-> 1, cap |-> TRUE, lazy |-> FALSE]>>,
     implies |-> "none"],
    [pattern |-> <<[lit |-> <<<<"h","i","g","h","e","s","t">>>>], [cls |-> {"s", "nl"}, min |-> 1, cap |-> FALSE, lazy |-> FALSE], [cls |-> {"d", "w"}, min |-> 1, cap |-> TRUE, lazy |-> FALSE]>>,
     implies |-> "desc"],
    [pattern |-> <<[lit |-> <<<<"l","o","w","e","s","t">>>>], [cls |-> {"s", "nl"}, min |-> 1, cap |-> FALSE, lazy |-> FALSE], [cls |-> {"d", "w"}, min |-> 1, cap |-> TRUE, lazy |-> FALSE]>>,
     implies |-> "asc"],
    [pattern |-> <<[lit |-> <<<<"l","a","r","g","e","s","t">>>>], [cls |-> {"s", "nl"}, min |-> 1, cap |-> FALSE, lazy |-> FALSE], [cls |-> {"d", "w"}, min |-> 1, cap |-> TRUE, lazy |-> FALSE]>>,
     implies |-> "desc"],
    [pattern |-> <<[lit |-> <<<<"s","m","a","l","l","e","s","t">>>>], [cls |-> {"s", "nl"}, min |-> 1, cap |-> FALSE, lazy |-> FALSE], [cls |-> {"d", "w"}, min |-> 1, cap |-> TRUE, lazy |-> FALSE]>>,
     implies |-> "asc"],
    [pattern |-> <<[lit |-> <<<<"m","a","x","i","m","u","m">>>>], [cls |-> {"s", "nl"}, min |-> 1, cap |-> FALSE, lazy |-> FALSE], [cls |-> {"d", "w"}, min |-> 1, cap |-> TRUE, lazy |-> FALSE]>>,
     implies |-> "desc"],
    [pattern |-> <<[lit |-> <<<<"m","i","n","i","m","u","m">>>>], [cls |-> {"s", "nl"}, min |-> 1, cap |-> FALSE, lazy |-> FALSE], [cls |-> {"d", "w"}, min |-> 1, cap |-> TRUE, lazy |-> FALSE]>>,
     implies |-> "asc"],
    [pattern |-> <<[lit |-> <<<<"b","o","t","t","o","m">>>>], [cls |-> {"s", "nl"}, min |-> 1, cap |-> FALSE, lazy |-> FALSE], [cls |-> {"d", "w", "s", "op", ",", ".", "other"}, min |-> 0, cap |-> FALSE, lazy |-> TRUE], [lit |-> <<<<"b","y">>>>], [cls |-> {"s", "nl"}, min |-> 1, cap |-> FALSE, lazy |-> FALSE], [cls |-> {"d", "w"}, min |-> 1, cap |-> TRUE, lazy |-> FALSE]>>,
     implies |-> "asc"]>>

\* each pattern with the direction it implies: "none", "asc" or "desc"
sort_patterns ==
  <<[pattern |-> <<[lit |-> <<<<"s","o","r","t">>, <<"o","r","d","e","r">>>>], [cls |-> {"s", "nl"}, min |-> 1, cap |-> FALSE, lazy |-> FALSE], [lit |-> <<<<"b","y">>>>], [cls |-> {"s", "nl"}, min |-> 1, cap |-> FALSE, lazy |-> FALSE], [cls |-> {"d", "w"}, min |-> 1, cap |-> TRUE, lazy |-> FALSE]>>,
     implies |-> "none"],
    [pattern |-> <<[lit |-> <<<<"h","i","g","h","e","s","t">>>>], [cls |-> {"s", "nl"}, min |-> 1, cap |-> FALSE, lazy |-> FALSE], [cls |-> {"d", "w"}, min |-> 1, cap |-> TRUE, lazy |-> FALSE]>>,
     implies |-> "desc"],
    [pattern |-> <<[lit |-> <<<<"l","o","w","e","s","t">>>>], [cls |-> {"s", "nl"}, min |-> 1, cap |-> FALSE, lazy |-> FALSE], [cls |-> {"d", "w"}, min |-> 1, cap |-> TRUE, lazy |-> FALSE]>>,
     implies |-> "asc"],
    [pattern |-> <<[lit |-> <<<<"l","a","r","g","e","s","t">>>>], [cls |-> {"s", "nl"}, min |-> 1, cap |-> FALSE, lazy |-> FALSE], [cls |-> {"d", "w"}, min |-> 1, cap |-> TRUE, lazy |-> FALSE]>>,
     implies |-> "desc"],
    [pattern |-> <<[lit |-> <<<<"s","m","a","l","l","e","s","t">>>>], [cls |-> {"s", "nl"}, min |-> 1, cap |-> FALSE, lazy |-> FALSE], [cls |-> {"d", "w"}, min |-> 1, cap |-> TRUE, lazy |-> FALSE]>>,
     implies |-> "asc"],
    [pattern |-> <<[lit |-> <<<<"m","a","x","i","m","u","m">>>>], [cls |-> {"s", "nl"}, min |-> 1, cap |-> FALSE, lazy |-> FALSE], [cls |-> {"d", "w"}, min |-> 1, cap |-> TRUE, lazy |-> FALSE]>>,
     implies |-> "desc"],
    [pattern |-> <<[lit |-> <<<<"m","i","n","i","m","u","m">>>>], [cls |-> {"s", "nl"}, min |-> 1, cap |-> FALSE, lazy |-> FALSE], [cls |-> {"d", "w"}, min |-> 1, cap |-> TRUE, lazy |-> FALSE]>>,
     implies |-> "asc"],
    [pattern |-> <<[lit |-> <<<<"t","o","p">>>>], [cls |-> {"s", "nl"}, min |-> 1, cap |-> FALSE, lazy |-> FALSE], [cls |-> {"d", "w", "s", "op", ",", ".", "other"}, min |-> 0, cap |-> FALSE, lazy |-> TRUE], [lit |-> <<<<"b","y">>>>], [cls |-> {"s", "nl"}, min |-> 1, cap |-> FALSE, lazy |-> FALSE], [cls |-> {"d", "w"}, min |-> 1, cap |-> TRUE, lazy |-> FALSE]>>,
     implies |-> "desc"],
    [pattern |-> <<[lit |-> <<<<"b","o","t","t","o","m">>>>], [cls |-> {"s", "nl"}, min |-> 1, cap |-> FALSE, lazy |-> FALSE], [cls |-> {"d", "w", "s", "op", ",", ".", "other"}, min |-> 0, cap |-> FALSE, lazy |-> TRUE], [lit |-> <<<<"b","y">>>>], [cls |-> {"s", "nl"}, min |-> 1, cap |-> FALSE, lazy |-> FALSE], [cls |-> {"d", "w"}, min |-> 1, cap |-> TRUE, lazy |-> FALSE]>>,
     implies |-> "asc"]>>

\* the scan with the ascending keywords looked up first
keyword_scan_ascending_first(params, query_lower) ==
  IF params.sort_column = <<>> THEN params
  ELSE IF \E word \in {<<"a","s","c">>,
                         <<"a","s","c","e","n","d","i","n","g">>,
                         <<"l","o","w","e","s","t">>,
                         <<"s","m","a","l","l","e","s","t">>,
                         <<"m","i","n","i","m","u","m">>} :
            \E i \in 1..Len(query_lower) : OccursAt(word, query_lower, i)
       THEN [params EXCEPT !.ascending = TRUE]
       ELSE IF \E word \in {<<"d","e","s","c">>,
                              <<"d","e","s","c","e","n","d","i","n","g">>,
                              <<"h","i","g","h","e","s","t">>,
                              <<"l","a","r","g","e","s","t">>,
                              <<"m","a","x","i","m","u","m">>} :
                 \E i \in 1..Len(query_lower) : OccursAt(word, query_lower, i)
            THEN [params EXCEPT !.ascending = FALSE]
            ELSE params

\* the scan for direction keywords, made only when a sort column was captured
keyword_scan(params, query_lower) ==
  IF params.sort_column = <<>> THEN params
  ELSE IF \E word \in {<<"d","e","s","c">>,
                         <<"d","e","s","c","e","n","d","i","n","g">>,
                         <<"h","i","g","h","e","s","t">>,
                         <<"l","a","r","g","e","s","t">>,
                         <<"m","a","x","i","m","u","m">>} :
            \E i \in 1..Len(query_lower) : OccursAt(word, query_lower, i)
       THEN [params EXCEPT !.ascending = FALSE]
       ELSE IF \E word \in {<<"a","s","c">>,
                              <<"a","s","c","e","n","d","i","n","g">>,
                              <<"l","o","w","e","s","t">>,
                              <<"s","m","a","l","l","e","s","t">>,
                              <<"m","i","n","i","m","u","m">>} :
                 \E i \in 1..Len(query_lower) : OccursAt(word, query_lower, i)
            THEN [params EXCEPT !.ascending = TRUE]
            ELSE params

parse_table_extraction_params(query) ==
  LET query_lower == Lower(query)
      Contains(s, word) == \E i \in 1..Len(s) : OccursAt(word, s, i)
      Digits == <<"0","1","2","3","4","5","6","7","8","9">>
      RECURSIVE int(_)
      int(text) ==
        IF text = <<>> THEN 0
        ELSE 10 * int(SubSeq(text, 1, Len(text) - 1))
             + (CHOOSE v \in 0..9 : Digits[v + 1] = text[Len(text)])
      \* the first number pattern that matches sets n_results
      numbers == {k \in 1..Len(number_patterns) :
                    re_search_from(number_patterns[k], query_lower, 1).ok}
      Least(S) == CHOOSE x \in S : \A y \in S : x <= y
      SetNumber(match) ==
        [default_params EXCEPT !.n_results = int(match.groups[1]),
                               !.extraction_type = "top_n"]
      number_step(matching) ==
        IF matching = {} THEN default_params
        ELSE SetNumber(re_search_from(number_patterns[Least(matching)], query_lower, 1))
      \* the first sort pattern that matches sets sort_column
      sorts == {k \in 1..Len(sort_patterns) :
                  re_search_from(sort_patterns[k].pattern, query_lower, 1).ok}
      SetColumn(params, ascending, match) ==
        IF ascending = "none" THEN [params EXCEPT !.sort_column = match.groups[1]]
        ELSE [params EXCEPT !.sort_column = match.groups[1],
                            !.ascending = (ascending = "asc"),
                            !.extraction_type = "top_n"]
      SortBy(params, k) ==
        SetColumn(params, sort_patterns[k].implies,
                  re_search_from(sort_patterns[k].pattern, query_lower, 1))
      sort_step(params, matching) ==
        IF matching = {} THEN params ELSE SortBy(params, Least(matching))
      filter_patterns ==
        <<<<[lit |-> <<<<"w","h","e","r","e">>>>], [cls |-> {"s", "nl"}, min |-> 1, cap |-> FALSE, lazy |-> FALSE], [cls |-> {"d", "w"}, min |-> 1, cap |-> TRUE, lazy |-> FALSE], [cls |-> {"s", "nl"}, min |-> 0, cap |-> FALSE, lazy |-> FALSE], [cls |-> {"op"}, min |-> 1, cap |-> TRUE, lazy |-> FALSE], [cls |-> {"s", "nl"}, min |-> 0, cap |-> FALSE, lazy |-> FALSE], [cls |-> {"d", "w", "op", ",", ".", "other"}, min |-> 1, cap |-> TRUE, lazy |-> FALSE]>>,
          <<[cls |-> {"d", "w"}, min |-> 1, cap |-> TRUE, lazy |-> FALSE], [cls |-> {"s", "nl"}, min |-> 0, cap |-> FALSE, lazy |-> FALSE], [cls |-> {"op"}, min |-> 1, cap |-> TRUE, lazy |-> FALSE], [cls |-> {"s", "nl"}, min |-> 0, cap |-> FALSE, lazy |-> FALSE], [cls |-> {"d", "w", "op", ".", "other"}, min |-> 1, cap |-> TRUE, lazy |-> FALSE]>>,
          <<[lit |-> <<<<"f","i","l","t","e","r">>>>], [cls |-> {"s", "nl"}, min |-> 1, cap |-> FALSE, lazy |-> FALSE], [lit |-> <<<<"b","y">>>>], [cls |-> {"s", "nl"}, min |-> 1, cap |-> FALSE, lazy |-> FALSE], [cls |-> {"d", "w"}, min |-> 1, cap |-> TRUE, lazy |-> FALSE], [cls |-> {"s", "nl"}, min |-> 0, cap |-> FALSE, lazy |-> FALSE], [cls |-> {"op"}, min |-> 1, cap |-> TRUE, lazy |-> FALSE], [cls |-> {"s", "nl"}, min |-> 0, cap |-> FALSE, lazy |-> FALSE], [cls |-> {"d", "w", "op", ",", ".", "other"}, min |-> 1, cap |-> TRUE, lazy |-> FALSE]>>>>
      \* float(value) when the value holds a ".", else int(value); the text is
      \* kept when the conversion raises ValueError
      IsDigits(text) == text # <<>> /\ \A i \in 1..Len(text) : CharClass(text[i]) = "d"
      convert(value) ==
        IF Contains(value, <<".">>)
        THEN IF \E i \in 1..Len(value) :
                  /\ value[i] = "."
                  /\ IsDigits(SubSeq(value, 1, i - 1) \o SubSeq(value, i + 1, Len(value)))
             THEN [float |-> value] ELSE [str |-> value]
        ELSE IF IsDigits(value) THEN [int |-> int(value)] ELSE [str |-> value]
      found(k) == re_finditer(filter_patterns[k], query_lower, 1)
      matches == found(1) \o found(2) \o found(3)
      filter_of(groups) ==
        [column |-> groups[1], operator |-> groups[2], value |-> convert(groups[3])]
      filters == [i \in DOMAIN matches |-> filter_of(matches[i])]
      column_mappings ==
        <<[canonical |-> <<"s","a","l","e","s">>,
           variations |-> {<<"s","a","l","e","s">>, <<"r","e","v","e","n","u","e">>, <<"i","n","c","o","m","e">>}],
          [canonical |-> <<"p","r","o","f","i","t">>,
           variations |-> {<<"p","r","o","f","i","t">>, <<"e","a","r","n","i","n","g","s">>, <<"n","e","t","_","i","n","c","o","m","e">>}],
          [canonical |-> <<"c","o","s","t">>,
           variations |-> {<<"c","o","s","t">>, <<"e","x","p","e","n","s","e">>, <<"e","x","p","e","n","d","i","t","u","r","e">>}],
          [canonical |-> <<"q","u","a","n","t","i","t","y">>,
           variations |-> {<<"q","u","a","n","t","i","t","y">>, <<"q","t","y">>, <<"a","m","o","u","n","t">>}],
          [canonical |-> <<"p","r","i","c","e">>,
           variations |-> {<<"p","r","i","c","e">>, <<"c","o","s","t">>, <<"r","a","t","e">>}],
          [canonical |-> <<"d","a","t","e">>,
           variations |-> {<<"d","a","t","e">>, <<"t","i","m","e">>, <<"t","i","m","e","s","t","a","m","p">>}],
          [canonical |-> <<"n","a","m","e">>,
           variations |-> {<<"n","a","m","e">>, <<"t","i","t","l","e">>, <<"p","r","o","d","u","c","t">>, <<"i","t","e","m">>}]>>
      mapped == {k \in 1..Len(column_mappings) :
                   \E variation \in column_mappings[k].variations :
                      Contains(query_lower, variation)}
      \* without a sort column the first canonical name with a variation in
      \* the query is taken
      infer_step(params, found_names) ==
        IF params.sort_column # <<>> \/ found_names = {} THEN params
        ELSE LET column == [params EXCEPT
                              !.sort_column = column_mappings[Least(found_names)].canonical]
             IN IF \E word \in {<<"t","o","p">>, <<"h","i","g","h","e","s","t">>, <<"m","a","x","i","m","u","m">>, <<"b","e","s","t">>} :
                     Contains(query_lower, word)
                THEN [column EXCEPT !.ascending = FALSE, !.extraction_type = "top_n"]
                ELSE column
      \* default_columns[0]
      default_step(params) ==
        IF params.extraction_type = "top_n" /\ params.sort_column = <<>>
        THEN [params EXCEPT !.sort_column = <<"s","a","l","e","s">>]
        ELSE params
      \* params["filters"] is set when there are filters
      filter_step(params, found_filters) ==
        IF found_filters = <<>> THEN params
        ELSE [extraction_type |-> params.extraction_type, n_results |-> params.n_results,
              sort_column |-> params.sort_column, ascending |-> params.ascending,
              filters |-> found_filters]
  IN filter_step(
       default_step(
         infer_step(keyword_scan(sort_step(number_step(numbers), sorts), query_lower),
                    mapped)),
       filters)


VARIABLES
  langPref,      \* the LanguagePreference collection
  chatHistory,   \* the ChatHistory collection
  sessionDocs,   \* the SessionDocuments collection
  fsFiles,       \* GridFS: fs.files
  links,         \* the links collection
  pc,            \* where process_chat is: "idle" or "graph" (inside graph.ainvoke)
  req,           \* the key and the message_uuid of the process_chat call in flight
  state,         \* the OrchestratorState of the graph run
  triggered,     \* nodes whose incoming edge has fired and that have not started
  active,        \* nodes that have started and not finished
  trace,         \* node starts and finishes of the graph run, in order
  calls,         \* what each finished node asked of its collaborators
  outcome,       \* how the last process_chat call ended
  turns,         \* process_chat calls so far (the source of message ids)
  selects,       \* select_language calls so far
  http,          \* the last reply of select_language / upload_document
  cl_query,      \* the query given to IntentClassifier.classify_intent on its own
  cl_count,      \* words typed into cl_query
  cl_result,     \* what classify_intent returned for cl_query
  dp_result,     \* what execute_tool_by_intent was asked and returned, on its own
  rp_result,     \* what a ResponseProcessor method was asked and returned, on its own
  hist,          \* the chat history on its own: operations so far and the records expected
  procs          \* concurrent process_chat calls: where each one is

vars == <<langPref, chatHistory, sessionDocs, fsFiles, links, pc, req, state,
          triggered, active, trace, calls, outcome, turns, selects, http,
          cl_query, cl_count, cl_result, dp_result, rp_result, hist, procs>>

classifierVars == <<cl_query, cl_count, cl_result>>
harnessVars == <<classifierVars, dp_result, rp_result, hist, procs>>
serviceVars == <<langPref, chatHistory, sessionDocs, fsFiles, links, pc, req, state,
                 triggered, active, trace, calls, outcome, turns, selects, http>>
NoResult == [intent |-> None, llm_called |-> FALSE]
Procs == 1..MaxProcs

storeVars == <<langPref, chatHistory, sessionDocs, fsFiles, links>>
graphVars == <<state, triggered, active, trace, calls>>

DbOutcomes == {"ok", "fail"}
ChatQueries == {qAnalyzeCsv, qSummarize, qCompare, qHola}
SelectableLanguages == {"French", "Klingon"}

Init ==
  /\ langPref = [k \in Keys |-> <<>>]
  /\ chatHistory = [k \in Keys |-> <<>>]
  /\ sessionDocs = [k \in Keys |-> <<>>]
  /\ fsFiles = <<>>
  /\ links = [k \in Keys |-> <<>>]
  /\ pc = "idle"
  /\ req = NoReq
  /\ state = EmptyDict
  /\ triggered = {}
  /\ active = {}
  /\ trace = <<>>
  /\ calls = EmptyDict
  /\ outcome = NoOutcome
  /\ turns = 0
  /\ selects = 0
  /\ http = NoReply
  /\ cl_query = <<>>
  /\ cl_count = 0
  /\ cl_result = NoResult
  /\ dp_result = NoResult
  /\ rp_result = NoResult
  /\ hist = [ops |-> 0, expected |-> <<>>]
  /\ procs = [p \in Procs |-> [pc |-> "start", request |-> None, response |-> None,
                               appended |-> <<>>]]

aadd_message_replacing(history, key, type, content, message_uuid) ==
  [history EXCEPT ![key] =
     <<("messages" :> <<[type |-> type, content |-> content,
           timestamp |-> "datetime.now()", message_id |-> message_uuid]>>)>>]

\* MongoDBChatMessageHistory.aadd_message
aadd_message(history, key, type, content, message_uuid) ==
  PushOne(history, key, "messages",
          [type |-> type, content |-> content,
           timestamp |-> "datetime.now()", message_id |-> message_uuid])

\* ChatService.get_session_chat: the messages of the first record of the key,
\* each as the type, the content and the timestamp formatted with strftime;
\* [] when there is no record or the store fails.
get_session_chat(history, key, dbRead) ==
  IF dbRead = "fail" \/ ~Found(history, key) \/ "messages" \notin DOMAIN FindOne(history, key)
  THEN <<>>
  ELSE LET messages == FindOne(history, key)["messages"] IN
       [i \in 1..Len(messages) |->
          [type |-> messages[i].type, content |-> messages[i].content,
           timestamp |-> <<"%d-%m-%Y %H:%M:%S", messages[i].timestamp>>]]

aclear_deleting(history, key) == [history EXCEPT ![key] = <<>>]

\* MongoDBChatMessageHistory.aclear: update_one($set messages = []) without
\* upsert: the first record of the key is emptied, no record is created
aclear(history, key) == UpdateOne(history, key, [messages |-> <<>>], FALSE)

\* process_chat up to the call of graph.ainvoke: the user message is appended
\* (a failure of the store raises and ends the call in the except branch), the
\* session documents are read and the initial state is seeded.
ChatStart(key, query, dbWrite, dbRead) ==
  /\ pc = "idle"
  /\ turns < MaxTurns
  /\ turns' = turns + 1
  /\ IF dbWrite = "fail"
     THEN /\ outcome' = process_chat_on_error
          /\ UNCHANGED <<chatHistory, pc, req, graphVars>>
     ELSE /\ chatHistory' = aadd_message(chatHistory, key, "human", QueryText(query), turns')
          /\ pc' = "graph"
          /\ req' = [key |-> key, message_id |-> turns']
          /\ state' = initial_state(key, query, turns',
                                    documents_dict(sessionDocs, key, dbRead))
          /\ triggered' = Successors("START")
          /\ active' = {}
          /\ trace' = <<>>
          /\ calls' = EmptyDict
          /\ outcome' = NoOutcome
  /\ http' = NoReply
  /\ UNCHANGED <<langPref, sessionDocs, fsFiles, links, selects, harnessVars>>

\* the graph executor starts a node whose incoming edge has fired
StartNode(n) ==
  /\ pc = "graph"
  /\ n \in triggered
  /\ triggered' = triggered \ {n}
  /\ active' = active \cup {n}
  /\ trace' = Append(trace, [node |-> n, ev |-> "start"])
  /\ UNCHANGED <<storeVars, pc, req, state, calls, outcome, turns, selects, http,
                 harnessVars>>

\* the bookkeeping of the executor when node n finishes with the given update
Finish(n, update, info) ==
  /\ pc = "graph"
  /\ n \in active
  /\ active' = active \ {n}
  /\ triggered' = triggered \cup Successors(n)
  /\ state' = Merge(state, update)
  /\ trace' = Append(trace, [node |-> n, ev |-> "finish"])
  /\ calls' = SetFields(calls, (n :> info))
  /\ UNCHANGED <<pc, req, outcome, turns, selects, http, harnessVars>>

FinishDetect(llm, dbRead, dbWrite) ==
  /\ "detect_user_language" \in active
  /\ \E r \in {detect_user_language(state, langPref, llm, dbRead, dbWrite)} :
       /\ Finish("detect_user_language", r.update,
                 [llm_invoked |-> r.llm_invoked, cached |-> r.cached,
                  had_preference |-> dbRead = "ok" /\ Found(langPref, req.key),
                  stored |-> IF dbRead = "ok" /\ Found(langPref, req.key)
                             THEN Get(FindOne(langPref, req.key), "selected_language", None)
                             ELSE None,
                  failed |-> \/ dbRead = "fail"
                             \/ (~r.cached /\ llm.kind \in {"raise", "init_raise"})])
       /\ langPref' = r.pref
  /\ UNCHANGED <<chatHistory, sessionDocs, fsFiles, links>>

\* the rule loop is run once on the last message; the model service answers
\* the fallback prompt in one of the ways of LLMIntentOutcomes
FinishClassify ==
  /\ "classify_intent" \in active
  /\ \E rule \in {RuleBasedIntent(intent_patterns, Lower(LastQuery(state)))} :
     \E llm \in LLMIntentOutcomes :
     \E r \in {classify_intent_node(classify_intent_after_rules(rule, llm))} :
       Finish("classify_intent", r.update,
              [llm_called |-> r.llm_called,
               llm |-> IF r.llm_called THEN llm ELSE [kind |-> "not called", content |-> ""]])
  /\ UNCHANGED storeVars

\* whether the dispatcher reaches MCPServer.execute_tool: the envelope then
\* depends on what the tool does
ToolIsCalled(st, user_links, loadable) ==
  execute_tool_node(st, user_links, loadable, "ok")
    # execute_tool_node(st, user_links, loadable, "fail")

FinishExecute(loadable, outcomeOfTool) ==
  /\ "execute_tool" \in active
  /\ \E r \in {execute_tool_node(state, links[req.key], loadable, outcomeOfTool)} :
       Finish("execute_tool", r.update,
              [tool |-> IF ToolIsCalled(state, links[req.key], loadable)
                        THEN outcomeOfTool ELSE "not called"])
  /\ UNCHANGED storeVars

FinishGenerate(llm, llm2) ==
  /\ "generate_response" \in active
  /\ \E r \in {generate_response_node(state, llm, llm2)} :
       Finish("generate_response", r.update, r.call)
  /\ UNCHANGED storeVars

\* the graph has reached END: no node is waiting or running
GraphDone == pc = "graph" /\ triggered = {} /\ active = {}

\* process_chat after graph.ainvoke: process_query returns the last assistant
\* message, the assistant record is appended to the history and the text is
\* returned; a failure of the store ends the call in the except branch.
ChatFinish(dbWrite) ==
  /\ GraphDone
  /\ LET response == process_query_return(state["messages"]) IN
     IF dbWrite = "fail"
     THEN /\ outcome' = process_chat_on_error
          /\ UNCHANGED chatHistory
     ELSE /\ chatHistory' = aadd_message(chatHistory, req.key, "ai", response, req.message_id)
          /\ outcome' = [kind |-> "returned", text |-> response]
  /\ pc' = "idle"
  /\ req' = NoReq
  /\ state' = EmptyDict
  /\ trace' = <<>>
  /\ calls' = EmptyDict
  /\ UNCHANGED <<langPref, sessionDocs, fsFiles, links, triggered, active, turns, selects,
                 http, harnessVars>>

\* POST /api/v1/select_language
SelectLanguage(key, language, db) ==
  LET r == select_language(langPref, key, language, db) IN
  /\ pc = "idle"
  /\ selects < MaxSelects
  /\ selects' = selects + 1
  /\ langPref' = r.pref
  /\ http' = [op |-> "select_language", status |-> r.status]
  /\ UNCHANGED <<chatHistory, sessionDocs, fsFiles, links, pc, req, graphVars, outcome, turns,
                 harnessVars>>

\* POST /api/v1/upload
UploadDocument(key, filename) ==
  LET r == upload_document(fsFiles, sessionDocs, key, filename) IN
  /\ pc = "idle"
  /\ Len(fsFiles) < MaxFiles
  /\ fsFiles' = r.files
  /\ sessionDocs' = r.docs
  /\ http' = [op |-> "upload_document", status |-> r.status]
  /\ UNCHANGED <<langPref, chatHistory, links, pc, req, graphVars, outcome, turns, selects,
                 harnessVars>>

Next ==
  \/ \E key \in Keys, q \in ChatQueries, w \in DbOutcomes, r \in DbOutcomes :
        ChatStart(key, q, w, r)
  \/ \E n \in Nodes : StartNode(n)
  \/ \E llm \in LLMLanguageOutcomes, r \in DbOutcomes, w \in DbOutcomes :
        FinishDetect(llm, r, w)
  \/ FinishClassify
  \/ \E loadable \in SUBSET (1..Len(fsFiles)), o \in ToolOutcomes : FinishExecute(loadable, o)
  \/ \E llm \in LLMCallOutcomes, llm2 \in LLMCallOutcomes : FinishGenerate(llm, llm2)
  \/ \E w \in DbOutcomes : ChatFinish(w)
  \/ \E key \in Keys, l \in SelectableLanguages, db \in DbOutcomes : SelectLanguage(key, l, db)
  \/ \E key \in Keys, f \in Filenames : UploadDocument(key, f)

Spec == Init /\ [][Next]_vars

(***************************************************************************)
(* IntentClassifier.classify_intent on its own: a query is typed word by   *)
(* word from Vocabulary, or is one of ExampleQueries, and is classified.   *)
(***************************************************************************)
TypeWord(w) ==
  /\ cl_result = NoResult
  /\ cl_count < MaxQueryWords
  /\ cl_query' = IF cl_query = <<>> THEN w ELSE cl_query \o <<" ">> \o w
  /\ cl_count' = cl_count + 1
  /\ UNCHANGED <<cl_result, serviceVars, dp_result, rp_result, hist, procs>>

TypeExample(q) ==
  /\ cl_result = NoResult
  /\ cl_count = 0
  /\ cl_query' = q
  /\ cl_count' = MaxQueryWords
  /\ UNCHANGED <<cl_result, serviceVars, dp_result, rp_result, hist, procs>>

Classify(llm) ==
  /\ cl_result = NoResult
  /\ cl_count > 0
  /\ \E r \in {classify_intent(cl_query, llm)} : cl_result' = r
  /\ UNCHANGED <<cl_query, cl_count, serviceVars, dp_result, rp_result, hist,
                 procs>>

NextClassify ==
  \/ \E w \in Vocabulary : TypeWord(w)
  \/ \E q \in ExampleQueries : TypeExample(q)
  \/ \E llm \in LLMIntentOutcomes : Classify(llm)

SpecClassify == Init /\ [][NextClassify]_vars

(***************************************************************************)
(* DataExtractionTool.execute as the dispatcher sees it: the file is       *)
(* loaded, then the extraction type is looked up; whatever raises gives    *)
(* the failure envelope of the except branch.                              *)
(***************************************************************************)
DataExtractionTool_execute(extraction_type, outcomeOfTool) ==
  IF outcomeOfTool = "load raises"
  THEN [success |-> FALSE, error |-> "Data extraction failed"]
  ELSE IF extraction_type \notin {"top_n", "filter", "search", "aggregate"}
       THEN [success |-> FALSE, error |-> "Unknown extraction type"]
       ELSE IF outcomeOfTool = "extraction raises"
            THEN [success |-> FALSE, error |-> "Data extraction failed"]
            ELSE [success |-> TRUE, error |-> None]

(***************************************************************************)
(* parse_table_extraction_params on its own, as _execute_data_analysis_tool*)
(* uses it for extract_table_data with a file at hand: a query is typed    *)
(* phrase by phrase, parsed, and the parameters are handed to the tool.    *)
(***************************************************************************)
Parse ==
  /\ cl_result = NoResult
  /\ cl_count > 0
  /\ \E extraction_params \in {parse_table_extraction_params(cl_query)} :
     \E outcomeOfTool \in {"ok", "load raises", "extraction raises"} :
        cl_result' = [query |-> cl_query,
                      extraction_params |-> extraction_params,
                      tool_result |-> DataExtractionTool_execute(
                                        extraction_params.extraction_type, outcomeOfTool)]
  /\ UNCHANGED <<cl_query, cl_count, serviceVars, dp_result, rp_result, hist,
                 procs>>

NextParse ==
  \/ \E w \in
      {<<"t","o","p"," ","5">>,   \* top 5
       <<"t","o","p"," ","1","2">>,   \* top 12
       <<"p","r","o","d","u","c","t","s">>,   \* products
       <<"b","y"," ","r","e","v","e","n","u","e"," ","d","e","s","c","e","n","d","i","n","g">>,   \* by revenue descending
       <<"B","y"," ","m","a","r","g","i","n">>,   \* By margin
       <<"a","s","c","e","n","d","i","n","g">>,   \* ascending
       <<"d","e","s","c","e","n","d","i","n","g">>,   \* descending
       <<"l","o","w","e","s","t"," ","p","r","i","c","e">>,   \* lowest price
       <<"w","h","e","r","e"," ","r","e","g","i","o","n"," ","="," ","e","a","s","t">>,   \* where region = east
       <<"h","e","l","l","o">>}   \* hello
       : TypeWord(w)
  \/ Parse

SpecParse == Init /\ [][NextParse]_vars

(***************************************************************************)
(* ToolsUtils.execute_tool_by_intent on its own: documents are uploaded    *)
(* and links are added for a session, then one intent is dispatched.       *)
(* dp_result keeps what was asked, the call handed to the MCP server (and  *)
(* what the tool did with it) and the envelope that came back.             *)
(***************************************************************************)
qReadLinks ==   \* read https://b.io and http://a.io
  <<"r","e","a","d"," ","h","t","t","p","s",":","/","/","b",".","i","o"," ","a","n","d"," ",
    "h","t","t","p",":","/","/","a",".","i","o">>
LinkUrls ==   \* http://a.io, http://c.io
  {<<"h","t","t","p",":","/","/","a",".","i","o">>,
   <<"h","t","t","p",":","/","/","c",".","i","o">>}

AddLink(key, url, db) ==
  LET r == add_link(links, key, url, db) IN
  /\ dp_result = NoResult
  /\ Len(links[key]) < MaxLinks
  /\ links' = r.links
  /\ http' = [op |-> "add_link", status |-> r.status]
  /\ UNCHANGED <<langPref, chatHistory, sessionDocs, fsFiles, pc, req, graphVars, outcome,
                 turns, selects, harnessVars>>

DispatchUpload(key, filename) ==
  /\ dp_result = NoResult
  /\ UploadDocument(key, filename)

Dispatch(key, intent, query, loadable, dbRead, outcomeOfTool) ==
  /\ dp_result = NoResult
  /\ LET documents == documents_dict(sessionDocs, key, "ok")
         user_links == get_user_links(links, key, dbRead)
         call == tool_call(intent, query, documents, user_links, loadable)
     IN dp_result' =
          [key |-> key, intent |-> intent, query |-> query, documents |-> documents,
           loadable |-> loadable, link_lookup |-> dbRead, call |-> call,
           tool |-> IF call = NoCall THEN "not called" ELSE outcomeOfTool,
           envelope |-> execute_tool_by_intent(intent, query, documents, user_links,
                                               loadable, outcomeOfTool)]
  /\ UNCHANGED <<serviceVars, classifierVars, rp_result, hist, procs>>

NextDispatch ==
  \/ \E key \in Keys, url \in LinkUrls, db \in DbOutcomes : AddLink(key, url, db)
  \/ \E key \in Keys,
        f \in Filenames \cup {[stem |-> "sales", ext |-> "xlsx"],
                              [stem |-> "notes", ext |-> "docx"]} : DispatchUpload(key, f)
  \/ \E key \in Keys, intent \in MCPTools, q \in {qLatestNews, qReadLinks},
        loadable \in SUBSET (1..Len(fsFiles)), r \in DbOutcomes, o \in ToolOutcomes :
        Dispatch(key, intent, q, loadable, r, o)

SpecDispatch == Init /\ [][NextDispatch]_vars

(***************************************************************************)
(* The ResponseProcessor on its own: process_and_format_response or        *)
(* handle_tool_failure is called once with an envelope and a language.     *)
(* rp_result keeps the arguments, what the model calls did (the outcome of *)
(* the translation call is kept when that call is made) and the text.      *)
(***************************************************************************)
Format(method, tool_result, target_language, llm, llm2) ==
  /\ rp_result = NoResult
  /\ rp_result' =
       [method |-> method, tool_result |-> tool_result,
        target_language |-> target_language, llm |-> llm,
        llm2 |-> IF llm = "raise" /\ target_language # "English" THEN llm2
                 ELSE "not called",
        text |-> IF method = "process_and_format_response"
                 THEN process_and_format_response(tool_result, target_language, llm, llm2)
                 ELSE handle_tool_failure(tool_result, target_language, llm, llm2)]
  /\ UNCHANGED <<serviceVars, classifierVars, dp_result, hist, procs>>

NextFormat ==
  \E method \in {"process_and_format_response", "handle_tool_failure"},
     e \in {ToolEnvelope(t, o) : t \in MCPTools, o \in {"ok", "fail"}}
             \cup {mcp_execute_tool(t, "raise") : t \in MCPTools},
     l \in SupportedSet, llm \in LLMCallOutcomes, llm2 \in LLMCallOutcomes :
    Format(method, e, l, llm, llm2)

SpecFormat == Init /\ [][NextFormat]_vars

(***************************************************************************)
(* MongoDBChatMessageHistory on its own: messages are appended to and      *)
(* cleared from the history of a key.  hist counts the calls and keeps the *)
(* records appended since the last clear; a call the store fails raises    *)
(* and changes nothing.                                                    *)
(***************************************************************************)
HistAppend(key, message, db) ==
  /\ hist.ops < MaxHistoryOps
  /\ LET message_uuid == hist.ops + 1 IN
     IF db = "fail"
     THEN /\ hist' = [hist EXCEPT !.ops = @ + 1]
          /\ UNCHANGED chatHistory
     ELSE /\ chatHistory' = aadd_message(chatHistory, key, message.type, message.content,
                                         message_uuid)
          /\ hist' = [ops |-> hist.ops + 1,
                      expected |-> Append(hist.expected,
                                          [type |-> message.type, content |-> message.content,
                                           timestamp |-> "datetime.now()",
                                           message_id |-> message_uuid])]
  /\ UNCHANGED <<langPref, sessionDocs, fsFiles, links, pc, req, graphVars, outcome, turns,
                 selects, http, classifierVars, dp_result, rp_result, procs>>

HistClear(key, db) ==
  /\ hist.ops < MaxHistoryOps
  /\ IF db = "fail"
     THEN /\ hist' = [hist EXCEPT !.ops = @ + 1]
          /\ UNCHANGED chatHistory
     ELSE /\ chatHistory' = aclear(chatHistory, key)
          /\ hist' = [ops |-> hist.ops + 1, expected |-> <<>>]
  /\ UNCHANGED <<langPref, sessionDocs, fsFiles, links, pc, req, graphVars, outcome, turns,
                 selects, http, classifierVars, dp_result, rp_result, procs>>

NextHistory ==
  \/ \E key \in Keys, message \in {Human(qHola), AI(ApologyError)}, db \in DbOutcomes :
        HistAppend(key, message, db)
  \/ \E key \in Keys, db \in DbOutcomes : HistClear(key, db)

SpecHistory == Init /\ [][NextHistory]_vars

(***************************************************************************)
(* Concurrent calls of process_chat for one (session, user).  A call       *)
(* yields at each await, so the calls interleave between the store         *)
(* operations and the pipeline.  update_one with upsert is atomic when a   *)
(* record of the key matches; when none matches the store inserts a new    *)
(* record, and the ChatHistory collection has no unique index on           *)
(* (session_id, user_id), so a record inserted by another call between the *)
(* match and the insert does not stop the insert.  procs[p] is where call  *)
(* p is, the text its pipeline returned and the records it has stored.     *)
(***************************************************************************)
RecordOf(p) ==
  IF procs[p].pc \in {"start", "human_insert"}
  THEN [type |-> "human", content |-> QueryText(qHola), timestamp |-> "datetime.now()",
        message_id |-> p]
  ELSE [type |-> "ai", content |-> procs[p].response, timestamp |-> "datetime.now()",
        message_id |-> p]

AfterWrite(p) == IF procs[p].pc \in {"start", "human_insert"} THEN "pipeline" ELSE "done"

\* aadd_message reaches update_one: with a record of the key the message is
\* pushed onto it; with none the store goes on to insert one.  A failure of
\* the store raises and process_chat returns the apology.
WriteTry(key, p, db) ==
  /\ procs[p].pc \in {"start", "ai_write"}
  /\ IF db = "fail"
     THEN /\ procs' = [procs EXCEPT ![p].pc = "done"]
          /\ UNCHANGED chatHistory
     ELSE IF Found(chatHistory, key)
     THEN /\ chatHistory' = aadd_message(chatHistory, key, RecordOf(p).type,
                                         RecordOf(p).content, p)
          /\ procs' = [procs EXCEPT ![p].pc = AfterWrite(p),
                                    ![p].appended = Append(@, RecordOf(p))]
     ELSE /\ procs' = [procs EXCEPT ![p].pc =
                         IF procs[p].pc = "start" THEN "human_insert" ELSE "ai_insert"]
          /\ UNCHANGED chatHistory
  /\ UNCHANGED <<langPref, sessionDocs, fsFiles, links, pc, req, graphVars, outcome, turns,
                 selects, http, classifierVars, dp_result, rp_result, hist>>

\* the insert of the upsert that found no record
WriteInsert(key, p) ==
  /\ procs[p].pc \in {"human_insert", "ai_insert"}
  /\ chatHistory' = InsertOne(chatHistory, key, ("messages" :> <<RecordOf(p)>>))
  /\ procs' = [procs EXCEPT ![p].pc = AfterWrite(p),
                            ![p].appended = Append(@, RecordOf(p))]
  /\ UNCHANGED <<langPref, sessionDocs, fsFiles, links, pc, req, graphVars, outcome, turns,
                 selects, http, classifierVars, dp_result, rp_result, hist>>

\* get_session_documents and process_query: they do not touch the history
RunPipeline(p, response) ==
  /\ procs[p].pc = "pipeline"
  /\ procs' = [procs EXCEPT ![p].pc = "ai_write", ![p].response = response]
  /\ UNCHANGED <<serviceVars, classifierVars, dp_result, rp_result, hist>>

NextConcurrent ==
  \/ \E key \in Keys, p \in Procs, db \in DbOutcomes : WriteTry(key, p, db)
  \/ \E key \in Keys, p \in Procs : WriteInsert(key, p)
  \/ \E p \in Procs, response \in {ApologyError, ApologyNoResponse} : RunPipeline(p, response)

SpecConcurrent == Init /\ [][NextConcurrent]_vars

(***************************************************************************)
(* Concurrent calls of select_language, of the store of a detected         *)
(* language by a chat turn, and of upload_document: each call reads the    *)
(* store, other calls may run, then it writes.                             *)
(***************************************************************************)
\* Utility.select_language up to the answer of find_one
SelectFind(key, p, language, db) ==
  /\ procs[p].pc = "start"
  /\ procs' = [procs EXCEPT
                 ![p].pc = IF language \notin SupportedSet \/ db = "fail" THEN "done"
                           ELSE IF Found(langPref, key) THEN "select_update"
                           ELSE "select_insert",
                 ![p].request = language]
  /\ UNCHANGED <<serviceVars, classifierVars, dp_result, rp_result, hist>>

\* Utility.select_language from the answer of find_one on: update_one when a
\* record was found, insert_one when none was
SelectWrite(key, p) ==
  /\ procs[p].pc \in {"select_update", "select_insert"}
  /\ langPref' = IF procs[p].pc = "select_insert"
                 THEN InsertOne(langPref, key, [selected_language |-> procs[p].request])
                 ELSE UpdateOne(langPref, key, [selected_language |-> procs[p].request], FALSE)
  /\ procs' = [procs EXCEPT ![p].pc = "done"]
  /\ UNCHANGED <<chatHistory, sessionDocs, fsFiles, links, pc, req, graphVars, outcome, turns,
                 selects, http, classifierVars, dp_result, rp_result, hist>>

\* a chat turn that has detected a language stores it
StoreDetected(key, p, language, dbWrite) ==
  /\ procs[p].pc = "start"
  /\ langPref' = store_user_language_preference(langPref, key, language, dbWrite)
  /\ procs' = [procs EXCEPT ![p].pc = "done", ![p].request = language]
  /\ UNCHANGED <<chatHistory, sessionDocs, fsFiles, links, pc, req, graphVars, outcome, turns,
                 selects, http, classifierVars, dp_result, rp_result, hist>>

\* upload_document up to the answer of fs.files.find_one: 400 for an
\* unsupported extension, 409 when the file is found
UploadCheck(key, p, filename) ==
  /\ procs[p].pc = "start"
  /\ procs' = [procs EXCEPT
                 ![p].pc = IF upload_document(fsFiles, sessionDocs, key, filename).status = 200
                           THEN "upload_store" ELSE "done",
                 ![p].request = filename]
  /\ UNCHANGED <<serviceVars, classifierVars, dp_result, rp_result, hist>>

\* upload_document from upload_from_stream on: the file is stored and its id
\* is pushed onto the list of its kind
UploadStore(key, p) ==
  /\ procs[p].pc = "upload_store"
  /\ fsFiles' = Append(fsFiles, [filename |-> procs[p].request, key |-> key])
  /\ sessionDocs' = PushOne(sessionDocs, key,
                            TypeKey(NormalizeType(LowerExt(procs[p].request.ext))),
                            Len(fsFiles) + 1)
  /\ procs' = [procs EXCEPT ![p].pc = "done"]
  /\ UNCHANGED <<langPref, chatHistory, links, pc, req, graphVars, outcome, turns,
                 selects, http, classifierVars, dp_result, rp_result, hist>>

NextRace ==
  \/ \E key \in Keys, p \in Procs, l \in SelectableLanguages \cup {"German"}, db \in DbOutcomes :
        SelectFind(key, p, l, db)
  \/ \E key \in Keys, p \in Procs : SelectWrite(key, p)
  \/ \E key \in Keys, p \in Procs, l \in {"Hindi"}, dbWrite \in DbOutcomes :
        StoreDetected(key, p, l, dbWrite)
  \/ \E key \in Keys, p \in Procs, f \in Filenames : UploadCheck(key, p, f)
  \/ \E key \in Keys, p \in Procs : UploadStore(key, p)

SpecRace == Init /\ [][NextRace]_vars

(***************************************************************************)
(* Properties of the pipeline.                                             *)
(***************************************************************************)
Ev(n, e) == [node |-> n, ev |-> e]

FullTrace ==
  <<Ev("detect_user_language", "start"), Ev("detect_user_language", "finish"),
    Ev("classify_intent", "start"), Ev("classify_intent", "finish"),
    Ev("execute_tool", "start"), Ev("execute_tool", "finish"),
    Ev("generate_response", "start"), Ev("generate_response", "finish")>>

IsPrefix(s, t) == Len(s) <= Len(t) /\ SubSeq(t, 1, Len(s)) = s

\* C1: in every call of process_query the four stages run exactly once each, in
\* the order detect_language, classify_intent, execute_tool, generate_response;
\* a stage starts only after the previous one has finished (at most one stage
\* is running), and the graph ends only after all four have run: no branch,
\* cycle or skipped stage, whatever the request state holds.
C1_StagesOnceInOrder ==
  pc = "graph" =>
    /\ IsPrefix(trace, FullTrace)
    /\ Cardinality(active) <= 1
    /\ Cardinality(active) + Cardinality(triggered) <= 1
    /\ (GraphDone => trace = FullTrace)

C1_Witness == GraphDone /\ trace = FullTrace /\ Len(state["messages"]) = 2

ApologyKinds == {"apology_error", "apology_no_response"}
AssistantMessages(messages) == SelectSeq(messages, LAMBDA m : m.type = "ai")

\* C2: every call of process_chat (and of process_query inside it) ends by
\* returning a text and never by raising, whichever of the model service, the
\* store and the tools fail; when the call produced no assistant message the
\* text returned is a fixed apology.
C2_AlwaysReturnsText ==
  /\ [][(pc' = "idle" /\ (pc = "graph" \/ turns' # turns)) =>
          /\ outcome'.kind = "returned"
          /\ outcome'.text.kind # "none"
          /\ (pc = "idle" \/ AssistantMessages(state["messages"]) = <<>>)
               => outcome'.text.kind \in ApologyKinds]_vars
  /\ [][pc = "graph" =>
          \/ pc' = "idle"
          \/ Len(trace') = Len(trace) + 1 /\ Len(trace') <= Len(FullTrace)]_vars

C2_Witness ==
  /\ pc = "idle" /\ turns = 1
  /\ outcome = [kind |-> "returned", text |-> ApologyError]
  /\ \A k \in Keys : chatHistory[k] = <<>>

Finished(n) == pc = "graph" /\ n \in DOMAIN calls
Language == state["user_query_language"]
LastMessage == Last(state["messages"])

\* C3: no stage failure aborts the pipeline: when the collaborator of
\* detect_language fails the language of the state is "English", when the
\* model call of classify_intent fails the intent is general_query, when the
\* tool of execute_tool raises the tool result is an envelope with
\* success = FALSE; the call goes on to the next stage in each case.
C3_StageFailureDegrades ==
  /\ (Finished("detect_user_language") /\ calls["detect_user_language"].failed)
       => Language = "English"
  /\ (Finished("classify_intent") /\ calls["classify_intent"].llm.kind = "raise")
       => state["intent"] = "general_query"
  /\ (Finished("execute_tool") /\ calls["execute_tool"].tool = "raise")
       => /\ "success" \in DOMAIN state["tool_result"]
          /\ state["tool_result"]["success"] = FALSE

\* C4: when the tool envelope has success = TRUE and the model answers the
\* Response Processor, the assistant message of generate_response is the
\* structured answer built from the tool result, not an apology.
C4_StructuredAnswerOnSuccess ==
  (/\ Finished("generate_response")
   /\ Get(state["tool_result"], "success", FALSE) = TRUE
   /\ calls["generate_response"].llm = "ok")
    => /\ LastMessage.type = "ai"
       /\ LastMessage.content.kind = "structured"

\* C5: the target language generate_response passes to the Response Processor
\* is the language detect_language wrote into the request state, on the
\* success path and on the tool-failure path.
C5_TargetLanguageIsDetected ==
  Finished("generate_response")
    => calls["generate_response"].response_language = Language

\* C6: when a Language Preference exists for (user, session), written by an
\* earlier detection or by select_language, get_or_detect_user_language
\* returns the stored language verbatim and makes no model call.
C6_StoredPreferenceIsReturned ==
  (/\ Finished("detect_user_language")
   /\ calls["detect_user_language"].had_preference)
    => /\ ~calls["detect_user_language"].llm_invoked
       /\ Language = calls["detect_user_language"].stored

\* C7: after the detect_language stage the language of the request state is
\* one of the 15 supported languages or the default "English", never the
\* unsupported-language marker or an error text.
C7_LanguageIsSupported ==
  Finished("detect_user_language") => Language \in SupportedSet \cup {"English"}

SevenCategories ==
  {"statistical_analysis", "financial_trend_analysis", "extract_table_data",
   "document_summarizer", "web_research", "comparative_analysis", "general_query"}
AnswerOutsideCategories(llm) ==
  llm.kind = "ok" /\ llm.content \in {"The intent is web_research", ""}

\* C8: after the classify_intent stage the intent is one of the seven
\* categories and never empty; for a query without a rule match, a model
\* answer outside the categories and an exception of the model call both give
\* general_query.
C8_IntentIsACategory ==
  Finished("classify_intent")
    => /\ state["intent"] \in SevenCategories
       /\ state["intent"] # ""
       /\ (/\ calls["classify_intent"].llm_called
           /\ \/ calls["classify_intent"].llm.kind = "raise"
              \/ AnswerOutsideCategories(calls["classify_intent"].llm))
            => state["intent"] = "general_query"

C8_Witness ==
  /\ Finished("execute_tool")
  /\ calls["classify_intent"].llm = [kind |-> "ok", content |-> "The intent is web_research"]
  /\ state["intent"] = "general_query"

CategoryMatches(i, q) == AnyPatternMatches(intent_patterns[i].patterns, Lower(q))
MatchingCategories(q) == {i \in 1..Len(intent_patterns) : CategoryMatches(i, q)}

\* C9: for a query whose lower-cased text matches a rule pattern, classify
\* returns the first category of the rule table, in declaration order, that
\* has a matching pattern, and the model is not called; "Analyze this CSV"
\* gives statistical_analysis.
C9_FirstMatchingCategoryWins ==
  (cl_result # NoResult /\ MatchingCategories(cl_query) # {})
    => /\ \E i \in MatchingCategories(cl_query) :
            /\ \A j \in MatchingCategories(cl_query) : i <= j
            /\ cl_result.intent = intent_patterns[i].intent
       /\ ~cl_result.llm_called
       /\ cl_query = qAnalyzeCsv => cl_result.intent = "statistical_analysis"

C9_Witness ==
  /\ cl_query = qAnalyzeCsv
  /\ Cardinality(MatchingCategories(cl_query)) > 1
  /\ cl_result = [intent |-> "statistical_analysis", llm_called |-> FALSE]

\* C10: every envelope the dispatcher returns to the execute_tool stage has
\* the key success set to a boolean, also when the tool raises, when the tool
\* name is not registered and when inputs are missing.
C10_EnvelopeHasSuccess ==
  Finished("execute_tool")
    => /\ "success" \in DOMAIN state["tool_result"]
       /\ state["tool_result"]["success"] \in BOOLEAN


(***************************************************************************)
(* Properties of the dispatcher on its own.                                *)
(***************************************************************************)
Dispatched == dp_result # NoResult
FailedEnvelope(e) ==
  /\ "success" \in DOMAIN e /\ e.success = FALSE
  /\ "error" \in DOMAIN e /\ e.error # ""

\* C11: the dispatcher never raises: whatever the intent, when no file loads,
\* when the link lookup fails or when the tool raises, execute_tool_by_intent
\* returns an envelope with success = false that carries the failure message.
\* (Violated: when the tool raises, MCPServer.execute_tool answers with an
\* envelope that has an error and no success key, the divergence of C10, and
\* the dispatcher passes it on as it is.)
C11_FailureGivesFailedEnvelope ==
  (Dispatched /\ (dp_result.call = NoCall \/ dp_result.tool = "raise"))
    => FailedEnvelope(dp_result.envelope)


DataIntents == {"statistical_analysis", "financial_trend_analysis", "extract_table_data"}
StoredIds(d, k) == {Get(d.documents, k, <<>>)[i] : i \in 1..Len(Get(d.documents, k, <<>>))}
LoadableIds(d, k) == StoredIds(d, k) \cap d.loadable

\* C12: when the session has no csv or excel document that loads, dispatching
\* statistical_analysis, financial_trend_analysis or extract_table_data
\* returns {success: false, error: non-empty} and no tool is invoked.
C12_NoTableNoTool ==
  (/\ Dispatched
   /\ dp_result.intent \in DataIntents
   /\ LoadableIds(dp_result, "csv_ids") \cup LoadableIds(dp_result, "excel_ids") = {})
    => /\ FailedEnvelope(dp_result.envelope)
       /\ dp_result.call = NoCall
       /\ dp_result.tool = "not called"

\* a csv file is stored but does not load, a pdf file loads, and
\* financial_trend_analysis has been answered without a tool
C12_Witness ==
  /\ Dispatched
  /\ dp_result.intent = "financial_trend_analysis"
  /\ StoredIds(dp_result, "csv_ids") # {}
  /\ LoadableIds(dp_result, "csv_ids") = {}
  /\ LoadableIds(dp_result, "pdf_ids") # {}
  /\ dp_result.call = NoCall
  /\ dp_result.envelope.success = FALSE


AvailableDocuments(d) == LoadableIds(d, "pdf_ids") \cup LoadableIds(d, "docx_ids")

\* C13: dispatch of comparative_analysis with fewer than two pdf/docx
\* documents that load (in particular exactly one) returns success = false
\* citing the two-document minimum and invokes no tool; with two or more the
\* tool is invoked with all of them, each once.
C13_TwoDocumentMinimum ==
  (Dispatched /\ dp_result.intent = "comparative_analysis")
    => IF Cardinality(AvailableDocuments(dp_result)) < 2
       THEN /\ FailedEnvelope(dp_result.envelope)
            /\ dp_result.envelope.error = "Need at least 2 documents for comparative analysis"
            /\ dp_result.call = NoCall
            /\ dp_result.tool = "not called"
       ELSE /\ dp_result.call # NoCall
            /\ dp_result.call.tool = "comparative_analysis"
            /\ dp_result.tool \in ToolOutcomes
            /\ LET docs == dp_result.call.documents IN
               /\ {docs[i] : i \in 1..Len(docs)} = AvailableDocuments(dp_result)
               /\ Len(docs) = Cardinality(AvailableDocuments(dp_result))

\* two documents are stored, exactly one of them loads, and the dispatch was
\* refused
C13_Witness ==
  /\ Dispatched
  /\ dp_result.intent = "comparative_analysis"
  /\ Cardinality(StoredIds(dp_result, "pdf_ids") \cup StoredIds(dp_result, "docx_ids")) = 2
  /\ Cardinality(AvailableDocuments(dp_result)) = 1
  /\ dp_result.call = NoCall
  /\ dp_result.envelope.success = FALSE

\* two documents load and the tool was invoked with both
C13_InvokedWithBoth ==
  /\ Dispatched
  /\ dp_result.intent = "comparative_analysis"
  /\ Cardinality(AvailableDocuments(dp_result)) = 2
  /\ Len(dp_result.call.documents) = 2


\* C14: dispatch of web_research uses the first URL found in the query when
\* the query has one; otherwise, after any sequence of add-link operations
\* for the session and user, it uses the most recently stored link; with
\* neither it returns a success = false envelope.  (The link lookup is the
\* one that succeeds.)
\* (Violated: get_user_links reads the links without a sort and the
\* dispatcher takes links[0], the link stored first.)
C14_WebResearchUrl ==
  (Dispatched /\ dp_result.intent = "web_research" /\ dp_result.link_lookup = "ok")
    => LET stored == links[dp_result.key] IN
       IF extract_urls_from_query(dp_result.query) # 0
       THEN /\ dp_result.call # NoCall
            /\ dp_result.call.url = first_url(dp_result.query)
            /\ dp_result.query = qReadLinks => dp_result.call.url = SubSeq(qReadLinks, 6, 17)
       ELSE IF stored # <<>>
       THEN /\ dp_result.call # NoCall
            /\ dp_result.call.url = Last(stored).url
       ELSE /\ dp_result.call = NoCall
            /\ FailedEnvelope(dp_result.envelope)


(***************************************************************************)
(* Properties of the pipeline and of process_chat, continued.              *)
(***************************************************************************)
MessageTypes(messages) == [i \in 1..Len(messages) |-> messages[i].type]

\* C15: generate_response appends exactly one assistant message to the
\* message list of the state, whether the envelope is a success, a failure or
\* the stage fails inside, and when the graph has run the state holds one
\* human message followed by one assistant message.
C15_OneAssistantMessageAppended ==
  /\ [][("generate_response" \in active /\ "generate_response" \notin active') =>
          /\ Len(state'["messages"]) = Len(state["messages"]) + 1
          /\ SubSeq(state'["messages"], 1, Len(state["messages"])) = state["messages"]
          /\ Last(state'["messages"]).type = "ai"]_vars
  /\ [][GraphDone' => MessageTypes(state'["messages"]) = <<"human", "ai">>]_vars

\* the graph has run on a successful envelope, the call of the stage to the
\* Response Processor failed inside it, and the state holds the two messages
C15_Witness ==
  /\ GraphDone
  /\ Get(state["tool_result"], "success", FALSE) = TRUE
  /\ ~calls["generate_response"].bound
  /\ Len(state["messages"]) = 2
  /\ state["messages"][1].type = "human"
  /\ state["messages"][2].type = "ai"


C16_TranslatedTemplate ==
  /\ rp_result # NoResult
  /\ rp_result.method = "process_and_format_response"
  /\ rp_result.tool_result = [success |-> TRUE, data |-> "statistical_analysis"]
  /\ rp_result.llm = "raise" /\ rp_result.llm2 = "ok"
  /\ rp_result.text = MkText("found", "Hindi", "statistical_analysis")


\* C17: select_language with a language outside the supported list is
\* answered with an error and leaves the LanguagePreference collection as it
\* was; with a supported language the call either succeeds, and the
\* collection then holds one record for (user, session) whose language is
\* exactly the one selected, whatever it held before, or the store fails and
\* the call is answered with an error and changes nothing.
C17_SelectLanguageLastWriteWins ==
  [][\A key \in Keys, language \in SelectableLanguages, db \in DbOutcomes :
       SelectLanguage(key, language, db) =>
         IF language \notin SupportedSet
         THEN http'.status >= 400 /\ langPref' = langPref
         ELSE \/ /\ http'.status = 200
                 /\ Len(langPref'[key]) = 1
                 /\ langPref'[key][1].selected_language = language
                 /\ \A k \in Keys \ {key} : langPref'[k] = langPref[k]
              \/ /\ db = "fail"
                 /\ http'.status >= 400 /\ langPref' = langPref]_vars

\* French was selected after a chat turn that went through the pipeline (where
\* detection writes the language it found) and the collection holds French
C17_Witness ==
  /\ http = [op |-> "select_language", status |-> 200]
  /\ turns = 1
  /\ \E key \in Keys : /\ Found(chatHistory, key)
                       /\ Len(FindOne(chatHistory, key)["messages"]) = 2
                       /\ Len(langPref[key]) = 1
                       /\ langPref[key][1].selected_language = "French"


\* the message list that aget_messages reads for a key
StoredMessages(history, key) ==
  IF Found(history, key) THEN Get(FindOne(history, key), "messages", <<>>) ELSE <<>>
HasRecord(history, key, type, message_uuid) ==
  \E i \in 1..Len(StoredMessages(history, key)) :
    /\ StoredMessages(history, key)[i].type = type
    /\ StoredMessages(history, key)[i].message_id = message_uuid

\* C18: in process_chat the user's message is in the chat history before the
\* pipeline runs and for as long as it runs, with no assistant record of the
\* turn yet; nothing removes or changes a stored record, whatever the pipeline
\* returns (the apology included); the assistant record of the turn, holding
\* the text the pipeline returned, is appended when the pipeline has returned
\* and only then.
C18_UserMessageStoredFirst ==
  /\ [][pc' = "graph" =>
          /\ HasRecord(chatHistory', req'.key, "human", req'.message_id)
          /\ ~HasRecord(chatHistory', req'.key, "ai", req'.message_id)]_vars
  /\ [][\A key \in Keys :
          IsPrefix(StoredMessages(chatHistory, key), StoredMessages(chatHistory', key))]_vars
  /\ [][(pc = "graph" /\ pc' = "idle") =>
          /\ HasRecord(chatHistory', req.key, "human", req.message_id)
          /\ \/ chatHistory' = chatHistory
             \/ StoredMessages(chatHistory', req.key) =
                  Append(StoredMessages(chatHistory, req.key),
                         [type |-> "ai", content |-> process_query_return(state["messages"]),
                          timestamp |-> "datetime.now()",
                          message_id |-> req.message_id])]_vars

\* a turn has ended with the apology of generate_response and the history
\* holds the user's message followed by the assistant record with the apology
C18_Witness ==
  /\ pc = "idle" /\ turns = 1
  /\ outcome = [kind |-> "returned", text |-> ApologyError]
  /\ \E key \in Keys :
       /\ Len(StoredMessages(chatHistory, key)) = 2
       /\ StoredMessages(chatHistory, key)[1].type = "human"
       /\ StoredMessages(chatHistory, key)[1].message_id = 1
       /\ StoredMessages(chatHistory, key)[2] =
            [type |-> "ai", content |-> ApologyError, timestamp |-> "datetime.now()",
             message_id |-> 1]


(***************************************************************************)
(* Properties of the chat history on its own.                              *)
(***************************************************************************)
\* C20: after any sequence of append and clear operations on the chat
\* history of a (session, user) the stored list is the records appended
\* since the last clear, in the order of their appending; an append adds one
\* record at the end and changes no earlier record; a clear empties the list
\* and the parent record of (session, user) continues to exist.
C20_AppendOnlyUntilClear ==
  /\ [](\A key \in Keys : StoredMessages(chatHistory, key) = hist.expected)
  /\ [][\A key \in Keys :
          LET before == StoredMessages(chatHistory, key)
              after == StoredMessages(chatHistory', key)
          IN /\ after # <<>> => (after = before \/ (Len(after) = Len(before) + 1
                                                    /\ IsPrefix(before, after)))
             /\ Found(chatHistory, key) =>
                  /\ Len(chatHistory'[key]) = 1
                  /\ "messages" \in DOMAIN FindOne(chatHistory', key)]_vars

\* after an append and a clear the parent record is there with an empty list
C20_Witness ==
  /\ hist.ops = 3 /\ hist.expected = <<>>
  /\ \E key \in Keys :
       /\ Found(chatHistory, key)
       /\ FindOne(chatHistory, key)["messages"] = <<>>

\* records were appended, cleared, and one more was appended
C20_AppendAfterClear ==
  /\ hist.ops = 3 /\ Len(hist.expected) = 1 /\ hist.expected[1].message_id = 3
  /\ \E key \in Keys : StoredMessages(chatHistory, key) = hist.expected


(***************************************************************************)
(* Properties of concurrent calls of process_chat.                         *)
(***************************************************************************)
AllDone == \A p \in Procs : procs[p].pc = "done"
Occurrences(messages, record) ==
  Cardinality({i \in 1..Len(messages) : messages[i] = record})

\* C19: under any interleaving of concurrent process_chat calls for the same
\* (session, user) no appended message is lost or overwritten: when all calls
\* have finished the chat history of the key, one record, contains every
\* human and every assistant message that was appended, each exactly once.
\* (Violated: two calls that both find no record of the key each insert one,
\* and the messages are split over two records of which the readers see one.)
C19_NoAppendedMessageLost ==
  (AllDone /\ \E p \in Procs : procs[p].appended # <<>>)
    => \E key \in Keys : \E d \in 1..Len(chatHistory[key]) :
         \A p \in Procs : \A i \in 1..Len(procs[p].appended) :
           Occurrences(chatHistory[key][d]["messages"], procs[p].appended[i]) = 1


\* C21: a message appended to the chat history and then read through
\* get_session_chat comes back with the role, the text, the timestamp (as
\* formatted) and the message_id it was appended with, for every message of
\* the session.
\* (Violated: get_session_chat returns type, content and timestamp only.)
C21_SessionChatRoundTrip ==
  \A key \in Keys :
    LET got == get_session_chat(chatHistory, key, "ok") IN
    /\ Len(got) = Len(hist.expected)
    /\ \A i \in 1..Len(got) :
         /\ got[i].type = hist.expected[i].type
         /\ got[i].content = hist.expected[i].content
         /\ got[i].timestamp[2] = hist.expected[i].timestamp
         /\ "message_id" \in DOMAIN got[i]
         /\ got[i].message_id = hist.expected[i].message_id


(***************************************************************************)
(* Properties of parse_table_extraction_params, checked in SpecParse.      *)
(***************************************************************************)
Parsed == "extraction_params" \in DOMAIN cl_result

\* the numbers and the columns of the phrases, as typed and as parsed
ShapeNumbers == {<<<<"5">>, 5>>, <<<<"1","2">>, 12>>}
ShapeColumns == {<<"r","e","v","e","n","u","e">>, <<"m","a","r","g","i","n">>}

ShapeHead(n) == <<"t","o","p"," ">> \o n[1]
ShapeTail(x) == <<" ","b","y"," ">> \o x \o <<" ","d","e","s","c","e","n","d","i","n","g">>

\* the query has the shape "top N ... by X descending", whatever the case
\* of its letters
TopNByX(q, n, x) ==
  /\ Len(q) >= Len(ShapeHead(n)) + Len(ShapeTail(x))
  /\ OccursAt(ShapeHead(n), Lower(q), 1)
  /\ OccursAt(ShapeTail(x), Lower(q), Len(q) - Len(ShapeTail(x)) + 1)

\* what stands between "top N" and " by X descending"
Middle(q, n, x) == SubSeq(Lower(q), Len(ShapeHead(n)) + 1, Len(q) - Len(ShapeTail(x)))

HasSubstring(s, word) == \E i \in 1..Len(s) : OccursAt(word, s, i)

\* one of the phrases "sort by", "order by", "highest", "lowest", "largest",
\* "smallest", "maximum", "minimum" is followed by a word somewhere in q
HasEarlierSortPhrase(q) ==
  \E k \in 1..7 : re_search_from(sort_patterns[k].pattern, Lower(q), 1).ok

YieldsTopN(n, x) ==
  /\ cl_result.extraction_params.extraction_type = "top_n"
  /\ cl_result.extraction_params.n_results = n[2]
  /\ cl_result.extraction_params.sort_column = x
  /\ cl_result.extraction_params.ascending = FALSE

\* C22 as stated: every query of the shape "top N ... by X descending" yields
\* extraction_type top_n, n_results N, sort_column X and ascending false.
C22_AnyTopNByXDescending ==
  Parsed =>
    \A n \in ShapeNumbers, x \in ShapeColumns :
       TopNByX(cl_result.query, n, x) => YieldsTopN(n, x)

\* C22, amended: a query of the shape "top N ... by X descending" on one line,
\* whose middle part holds no "by" and which holds none of the sort phrases
\* "sort by", "order by", "highest", "lowest", "largest", "smallest",
\* "maximum", "minimum" followed by a word, yields extraction_type top_n,
\* n_results N, sort_column X in lower case and ascending false; "top 5
\* products by revenue descending" yields top_n, 5, "revenue", false.
C22_TopNByXDescending ==
  Parsed =>
    \A n \in ShapeNumbers, x \in ShapeColumns :
       /\ TopNByX(cl_result.query, n, x)
       /\ ~HasSubstring(cl_result.query, <<"\n">>)
       /\ ~HasSubstring(Middle(cl_result.query, n, x), <<"b","y">>)
       /\ ~HasEarlierSortPhrase(cl_result.query)
       => YieldsTopN(n, x)

\* "top 5 products by revenue descending" was parsed into top_n, 5, "revenue",
\* descending
C22_Witness ==
  /\ Parsed
  /\ cl_result.query = <<"t","o","p"," ","5"," ","p","r","o","d","u","c","t","s"," ","b","y"," ","r","e","v","e","n","u","e"," ","d","e","s","c","e","n","d","i","n","g">>
  /\ cl_result.extraction_params =
       [extraction_type |-> "top_n", n_results |-> 5,
        sort_column |-> <<"r","e","v","e","n","u","e">>, ascending |-> FALSE]


\* a digit occurs in q
HasNumericHint(q) == \E i \in 1..Len(q) : CharClass(q[i]) = "d"

\* a word of the sort phrases or a direction keyword occurs in q
HasSortHint(q) ==
  LET query_lower == Lower(q)
  IN \E word \in {<<"s","o","r","t">>, <<"o","r","d","e","r">>,
                  <<"h","i","g","h","e","s","t">>, <<"l","o","w","e","s","t">>,
                  <<"l","a","r","g","e","s","t">>,
                  <<"s","m","a","l","l","e","s","t">>,
                  <<"m","a","x","i","m","u","m">>,
                  <<"m","i","n","i","m","u","m">>, <<"t","o","p">>,
                  <<"b","o","t","t","o","m">>, <<"a","s","c">>,
                  <<"d","e","s","c">>, <<"b","e","s","t">>} :
        HasSubstring(query_lower, word)

\* a word of the synonym table of the column names occurs in q
HasColumnWord(q) ==
  LET query_lower == Lower(q)
  IN \E word \in {<<"s","a","l","e","s">>, <<"r","e","v","e","n","u","e">>,
                  <<"i","n","c","o","m","e">>, <<"p","r","o","f","i","t">>,
                  <<"e","a","r","n","i","n","g","s">>,
                  <<"n","e","t","_","i","n","c","o","m","e">>,
                  <<"c","o","s","t">>, <<"e","x","p","e","n","s","e">>,
                  <<"e","x","p","e","n","d","i","t","u","r","e">>,
                  <<"q","u","a","n","t","i","t","y">>, <<"q","t","y">>,
                  <<"a","m","o","u","n","t">>, <<"p","r","i","c","e">>,
                  <<"r","a","t","e">>, <<"d","a","t","e">>, <<"t","i","m","e">>,
                  <<"t","i","m","e","s","t","a","m","p">>, <<"n","a","m","e">>,
                  <<"t","i","t","l","e">>, <<"p","r","o","d","u","c","t">>,
                  <<"i","t","e","m">>} :
        HasSubstring(query_lower, word)

\* a comparison operator occurs in q
HasComparison(q) == \E i \in 1..Len(q) : CharClass(q[i]) = "op"

DocumentedDefaults ==
  [extraction_type |-> "all", n_results |-> 10, sort_column |-> <<>>, ascending |-> TRUE]

\* C23 as stated: a query with no numeric hint and no sort hint returns exactly
\* extraction_type "all", n_results 10, sort_column None, ascending true, and
\* no filters.
C23_NoHintsGiveDefaults ==
  Parsed /\ ~HasNumericHint(cl_result.query) /\ ~HasSortHint(cl_result.query)
    => cl_result.extraction_params = DocumentedDefaults

\* C23, amended: a query with no numeric hint, no sort hint, no word of the
\* synonym table of the column names and no comparison returns exactly
\* extraction_type "all", n_results 10, sort_column None, ascending true, and
\* no filters.
C23_NoHintsNoColumnWordGiveDefaults ==
  /\ Parsed
  /\ ~HasNumericHint(cl_result.query)
  /\ ~HasSortHint(cl_result.query)
  /\ ~HasColumnWord(cl_result.query)
  /\ ~HasComparison(cl_result.query)
  => cl_result.extraction_params = DocumentedDefaults

\* "hello hello" was parsed into the defaults
C23_Witness ==
  /\ Parsed
  /\ cl_result.query = <<"h","e","l","l","o"," ","h","e","l","l","o">>
  /\ ~HasNumericHint(cl_result.query)
  /\ ~HasSortHint(cl_result.query)
  /\ cl_result.extraction_params = DocumentedDefaults


\* a sort pattern matches q, so a sort column was captured
SortColumnCaptured(q) ==
  \E k \in 1..Len(sort_patterns) : re_search_from(sort_patterns[k].pattern, Lower(q), 1).ok

HasDescendingKeyword(q) ==
  LET query_lower == Lower(q)
  IN \E word \in {<<"d","e","s","c">>, <<"d","e","s","c","e","n","d","i","n","g">>, <<"h","i","g","h","e","s","t">>, <<"l","a","r","g","e","s","t">>, <<"m","a","x","i","m","u","m">>} :
        HasSubstring(query_lower, word)

HasAscendingKeyword(q) ==
  LET query_lower == Lower(q)
  IN \E word \in {<<"a","s","c">>, <<"a","s","c","e","n","d","i","n","g">>, <<"l","o","w","e","s","t">>, <<"s","m","a","l","l","e","s","t">>, <<"m","i","n","i","m","u","m">>} :
        HasSubstring(query_lower, word)

\* C24 as stated: when a sort column was captured, a descending keyword in the
\* query forces ascending=false and an ascending keyword forces ascending=true.
C24_KeywordForcesDirection ==
  Parsed /\ SortColumnCaptured(cl_result.query) =>
    /\ HasDescendingKeyword(cl_result.query) => cl_result.extraction_params.ascending = FALSE
    /\ HasAscendingKeyword(cl_result.query) => cl_result.extraction_params.ascending = TRUE

\* C24, amended: when a sort column was captured, the keyword scan decides the
\* direction over the direction implied by the matched sort phrase: a
\* descending keyword (desc, descending, highest, largest, maximum) anywhere
\* in the lower-cased query forces ascending=false, and an ascending keyword
\* (asc, ascending, lowest, smallest, minimum) forces ascending=true when no
\* descending keyword occurs.
\* (Stated by contraposition: a direction other than the keyword's is only
\* returned when no sort column was captured.)
C24_DescendingKeywordFirst ==
  Parsed =>
    /\ HasDescendingKeyword(cl_result.query) /\ cl_result.extraction_params.ascending # FALSE
         => ~SortColumnCaptured(cl_result.query)
    /\ /\ HasAscendingKeyword(cl_result.query)
       /\ ~HasDescendingKeyword(cl_result.query)
       /\ cl_result.extraction_params.ascending # TRUE
       => ~SortColumnCaptured(cl_result.query)

\* "top 5 By margin ascending" was parsed: "top ... by" implies descending, the
\* keyword gives ascending
C24_Witness ==
  /\ Parsed
  /\ cl_result.query = <<"t","o","p"," ","5"," ","B","y"," ","m","a","r","g","i","n"," ","a","s","c","e","n","d","i","n","g">>
  /\ SortColumnCaptured(cl_result.query)
  /\ cl_result.extraction_params.sort_column = <<"m","a","r","g","i","n">>
  /\ cl_result.extraction_params.ascending = TRUE


\* C28: every extraction_type that parse_table_extraction_params returns is one
\* the table-extraction tool accepts, so that extract_table_data with a file
\* that loads never ends in the failure envelope "Unknown extraction type".
C28_ExtractionTypeAccepted ==
  Parsed =>
    /\ cl_result.extraction_params.extraction_type \in {"top_n", "filter", "search", "aggregate"}
    /\ cl_result.tool_result.error # "Unknown extraction type"


\* C25: a chat turn never changes an existing Language Preference: a step
\* that is not a select_language call leaves the stored language of every
\* (user, session) that has a preference as it was.
C25_ChatTurnKeepsPreference ==
  [][\A key \in Keys :
       (Found(langPref, key) /\ selects' = selects)
         => /\ Found(langPref', key)
            /\ FindOne(langPref', key)["selected_language"]
                 = FindOne(langPref, key)["selected_language"]]_vars

\* C26: every language held in the Language Preference store is one of the
\* supported languages, never the unsupported-language marker or an error
\* text of the detection.
C26_StoredLanguageIsSupported ==
  \A key \in Keys :
     \A i \in 1..Len(langPref[key]) :
        langPref[key][i]["selected_language"] \in SupportedSet


\* C29: in the chat history of a (session, user), under any interleaving of
\* process_chat calls, each message_id has at most one human record and at
\* most one assistant record, and an assistant record comes after the human
\* record with the same message_id; no assistant record is without its human
\* record.
C29_HumanThenAssistantPerMessageId ==
  \A key \in Keys :
     LET messages == StoredMessages(chatHistory, key)
         Positions(type, id) ==
           {i \in 1..Len(messages) : messages[i].type = type /\ messages[i].message_id = id}
     IN \A id \in Procs :
          /\ Cardinality(Positions("human", id)) <= 1
          /\ Cardinality(Positions("ai", id)) <= 1
          /\ \A j \in Positions("ai", id) : \E i \in Positions("human", id) : i < j


(***************************************************************************)
(* Properties of concurrent calls that read the store and then write.      *)
(***************************************************************************)
\* C27: under any interleaving of concurrent select_language calls and chat
\* turns for the same (user, session), the Language Preference store holds at
\* most one record for that (user, session).
C27_OnePreferenceRecord ==
  \A key \in Keys : Len(langPref[key]) <= 1

\* C30: under any interleaving of concurrent upload_document calls the content
\* store never holds two files with the same (filename, session, user), and
\* the document lists of a session hold one id for each of its files.
C30_NoDuplicateFile ==
  /\ \A i, j \in 1..Len(fsFiles) :
       (fsFiles[i].filename = fsFiles[j].filename /\ fsFiles[i].key = fsFiles[j].key) => i = j
  /\ \A key \in Keys :
       LET doc == IF Found(sessionDocs, key) THEN FindOne(sessionDocs, key) ELSE EmptyDict
           ids == UNION {{doc[k][i] : i \in 1..Len(doc[k])} : k \in DOMAIN doc}
           names == {fsFiles[i].filename : i \in {n \in 1..Len(fsFiles) : fsFiles[n].key = key}}
       IN Cardinality(ids) <= Cardinality(names)

=============================================================================
